---------------------------- MODULE Spec2Model ----------------------------
(***************************************************************************)
(* AT protocol engine of the STM32WB BLE gateway module:                   *)
(*   - the interrupt-time line receiver      (at_command.c)                *)
(*   - the command parser / dispatcher       (at_command.c)                *)
(*   - the Command/Data mode controller      (module_mode.c)               *)
(*   - the power manager                     (module_power.c)              *)
(* C strings are sequences of character codes (the terminating NUL is not  *)
(* part of the sequence; reading one position past the end yields 0).      *)
(* The specifications share the variables: SpecRx (bytes into the line     *)
(* receiver), Spec (command lines into the dispatcher), SpecData (bytes,   *)
(* time and the escape poll in Data mode), SpecHex (ParseHexString),       *)
(* SpecCmd (the GATT, scan and configuration commands), SpecTunnel (the    *)
(* Data-mode tunnel in both directions), SpecWire (the writers of the      *)
(* serial line), SpecRxLive and SpecDataLive (the receiver and the         *)
(* Data-mode session under fairness of the deferred task, of time and of   *)
(* the main loop's poll), SpecBuf (the receiver and the Data-mode buffer   *)
(* fed from one serial line), SpecPreempt (the serial interrupt falling    *)
(* inside the switch back to Command mode), SpecMac (a listed address      *)
(* given back to AT+CONNECT) and SpecPower (module_power.c).               *)
(***************************************************************************)
EXTENDS Integers, Sequences, FiniteSets, TLC

(***************************************************************************)
(* Program constants that keep the value the source gives them.            *)
(***************************************************************************)
ASCII_SPACE == 32
ASCII_TILDE == 126
ASCII_CR == 13
ASCII_LF == 10
ESCAPE_SEQ_CHAR == 43
ESCAPE_SEQ_LENGTH == 3
MODE_COMMAND == 0
MODE_DATA == 1
AT_WRITE_MAX_DATA_LEN == 64
CMD_LOCAL_LEN == 128
NO_DEVICE == 255
\* Power_Mode_t (module_power.h:19-26)
POWER_MODE_RUN == 0
POWER_MODE_SLEEP == 1
POWER_MODE_STOP0 == 2
POWER_MODE_STOP1 == 3
POWER_MODE_STOP2 == 4
POWER_MODE_STANDBY == 5
\* Wake_Source_t (module_power.h:29-35)
WAKE_SOURCE_UART == 1
WAKE_SOURCE_GPIO == 2
WAKE_SOURCE_TIMER == 4
WAKE_SOURCE_BLE == 8

(***************************************************************************)
(* Sizes and periods of the source that the model checks at a reduced      *)
(* scale (the value of the source is given with each).  The order between  *)
(* them is the source's: AT_MAX_GARBAGE < AT_RX_TIMEOUT_MS, the coalescing *)
(* gap is shorter than the guard time, the flush margin leaves room for a  *)
(* buffered run and one byte.                                              *)
(***************************************************************************)
\* at_line_buf[AT_CMD_MAX_LEN], AT_CMD_MAX_LEN = 128 in the source
AT_CMD_MAX_LEN == 4
\* AT_RX_TIMEOUT_MS = 500 in the source
AT_RX_TIMEOUT_MS == 4
\* AT_MAX_GARBAGE = 20 in the source
AT_MAX_GARBAGE == 2
\* at_rx_tick is a uint32_t: 2^32 in the source
RX_TICK_MOD == 8
\* ESCAPE_GUARD_TIME_MS = 1000 in the source
ESCAPE_GUARD_TIME_MS == 3
\* "time_since_last > 10" in Module_Mode_ProcessDataByte
DATA_FLUSH_GAP_MS == 1
\* DATA_TX_BUFFER_SIZE = 512 in the source
DATA_TX_BUFFER_SIZE == 6
\* "DATA_TX_BUFFER_SIZE - 20" in Module_Mode_ProcessDataByte
DATA_TX_FLUSH_MARGIN == 3
\* HAL_GetTick() is a uint32_t: 2^32 in the source
TICK_MOD == 6

(***************************************************************************)
(* Bounds of the model.                                                    *)
(***************************************************************************)
\* the longest silence (in ticks) the model lets pass between two calls
MaxSilence == 4
\* the number of Data-mode bytes recorded in the history variables
MaxLog == 4
\* the number of device records the device manager may hold
MaxDevices == 2
\* the longest byte sequence whose encodings are given to ParseHexString
MaxHexBytes == 2
\* the longest string of other characters given to ParseHexString
MaxHexChars == 3

VARIABLES
    \* line receiver (at_command.c:40-49)
    at_line_buf, at_line_idx, at_cmd_ready, at_garbage_count, at_rx_tick,
    at_cmd_buf,
    \* AT_Command_ProcessReady's position and the sequencer's task flag
    proc_pc, task_pending,
    \* history: the printable bytes fed since the receiver was last empty
    \* (at init, after a drain, after a discarded line), and the line buffer
    \* as it was when the ready flag was last raised
    rx_fed, rx_raised,
    \* history: the number of printable bytes that have found the line
    \* buffer full since it was filled, kept through the step that
    \* completes the line
    rx_long,
    \* mode controller (module_mode.c:18-31)
    current_mode, target_dev_idx, target_char_handle,
    data_tx_buffer, data_tx_len,
    escape_count, last_char_time, escape_start_time, escape_detected,
    \* HAL_GetTick()
    tick,
    \* the device manager's records
    devices,
    \* what the last step did: the operation and its inputs, the lines it
    \* put on the serial port, the collaborator calls it made, its result
    last_op, uart_out, calls, ret,
    \* history of the Data-mode session: ticks since its last byte (or its
    \* start), the bytes received, the bytes handed to GATT writes, whether a
    \* byte has cut short the trailing silence of a '+++'
    idle, rx_log, gatt_log, abandoned,
    \* and whether a GATT write of the session has failed
    write_failed,
    \* a pure function under check: its input and its result
    fn_in, fn_out,
    \* AT_Response_Send's static response_buf, the lines the dispatcher has
    \* still to send and how far it is with the first of them, and what has
    \* reached the serial line since the command began
    response_buf, tx_queue, tx_pc, tx_part, wire,
    \* power manager (module_power.c:19-21); power_mode is that file's static
    \* current_mode
    power_mode, is_sleeping, wake_sources

rxVars == <<at_line_buf, at_line_idx, at_cmd_ready, at_garbage_count,
            at_rx_tick, at_cmd_buf, proc_pc, task_pending, rx_fed, rx_raised,
            rx_long>>

modeVars == <<current_mode, target_dev_idx, target_char_handle,
              data_tx_buffer, data_tx_len,
              escape_count, last_char_time, escape_start_time, escape_detected>>

obsVars == <<last_op, uart_out, calls, ret>>

histVars == <<idle, rx_log, gatt_log, abandoned, write_failed>>

fnVars == <<fn_in, fn_out>>

wireVars == <<response_buf, tx_queue, tx_pc, tx_part, wire>>

powerVars == <<power_mode, is_sleeping, wake_sources>>

vars == <<rxVars, modeVars, tick, devices, obsVars, histVars, fnVars,
         wireVars, powerVars>>

\* the bytes the serial interrupt delivers in the receiver's specification:
\* LF, CR, the two ends of the printable range and the bytes just outside it
RxBytes == {10, 13, 31, 32, 126, 127}

\* a faulty variant of the terminator test: a space ends the line too
IsTerminator_AlsoSpace(byte) ==
    byte = ASCII_CR \/ byte = ASCII_LF \/ byte = ASCII_SPACE

\* byte == ASCII_CR || byte == ASCII_LF
IsTerminator(byte) == byte = ASCII_CR \/ byte = ASCII_LF

\* a faulty variant of the printable filter: '~' is left out
IsPrintable_BelowTilde(byte) == byte >= ASCII_SPACE /\ byte < ASCII_TILDE

\* byte >= ASCII_SPACE && byte <= ASCII_TILDE
IsPrintable(byte) == byte >= ASCII_SPACE /\ byte <= ASCII_TILDE


(***************************************************************************)
(* C strings and pointers into them.                                       *)
(***************************************************************************)
\* str[i] of the C string, i counted from 0; the terminator reads as 0
CharAt(str, i) == IF i < Len(str) THEN str[i + 1] ELSE 0

\* &str[i]: the rest of the string from position i (i <= strlen)
From(str, i) == SubSeq(str, i + 1, Len(str))

\* the null pointer (no C string holds a negative code)
NULL_PTR == <<-1>>

\* strncmp(str, lit, strlen(lit)) == 0
HasPrefix(str, lit) ==
    /\ Len(str) >= Len(lit)
    /\ SubSeq(str, 1, Len(lit)) = lit

IsDigit(c) == c >= 48 /\ c <= 57

RECURSIVE ParseUIntLoop(_, _, _)
\* the digit loop of ParseUInt16/ParseUInt8: -1 stands for the overflow exit
ParseUIntLoop(str, val, limit) ==
    IF str # <<>> /\ IsDigit(Head(str))
    THEN LET v == val * 10 + (Head(str) - 48)
         IN  IF v > limit THEN -1 ELSE ParseUIntLoop(Tail(str), v, limit)
    ELSE val

\* a faulty variant of ParseUInt16: the overflow exit is taken at 0xFFFF
\* already
ParseUInt16_Below65535(str) ==
    IF str = NULL_PTR \/ str = <<>> THEN 0
    ELSE LET r == ParseUIntLoop(str, 0, 65534)
         IN  IF r = -1 THEN 0 ELSE r

ParseUInt16(str) ==
    IF str = NULL_PTR \/ str = <<>> THEN 0
    ELSE LET r == ParseUIntLoop(str, 0, 65535)
         IN  IF r = -1 THEN 0 ELSE r

ParseUInt8(str) ==
    IF str = NULL_PTR \/ str = <<>> THEN 255
    ELSE LET r == ParseUIntLoop(str, 0, 255)
         IN  IF r = -1 THEN 255 ELSE r

RECURSIVE SkipToComma(_)
SkipToComma(str) ==
    IF str = NULL_PTR THEN NULL_PTR
    ELSE IF str = <<>> THEN NULL_PTR
    ELSE IF Head(str) = 44 THEN Tail(str)
    ELSE SkipToComma(Tail(str))

\* 0..15, or 255 for a character that is no hex digit
\* a faulty variant of ParseHexNibble: the lower-case digits are not accepted
ParseHexNibble_NoLower(c) ==
    IF c >= 48 /\ c <= 57 THEN c - 48
    ELSE IF c >= 65 /\ c <= 70 THEN c - 65 + 10
    ELSE 255

ParseHexNibble(c) ==
    IF c >= 48 /\ c <= 57 THEN c - 48
    ELSE IF c >= 65 /\ c <= 70 THEN c - 65 + 10
    ELSE IF c >= 97 /\ c <= 102 THEN c - 97 + 10
    ELSE 255

RECURSIVE ParseHexLoop(_, _, _)
\* the while loop of ParseHexString: out holds out_bytes[0..i)
ParseHexLoop(hex_str, out, max_len) ==
    IF CharAt(hex_str, 0) # 0 /\ CharAt(hex_str, 1) # 0 /\ Len(out) < max_len
    THEN LET hi == ParseHexNibble(CharAt(hex_str, 0))
             lo == ParseHexNibble(CharAt(hex_str, 1))
         IN  IF hi = 255 \/ lo = 255
             THEN [ret |-> -1, out |-> out]
             ELSE ParseHexLoop(From(hex_str, 2),
                               Append(out, (hi * 16 + lo) % 256), max_len)
    ELSE IF CharAt(hex_str, 0) # 0 /\ CharAt(hex_str, 1) = 0
         THEN [ret |-> -1, out |-> out]
         ELSE [ret |-> Len(out), out |-> out]

\* ret: the number of bytes, or -1; out: the bytes written to out_bytes
ParseHexString(hex_str, max_len) ==
    IF hex_str = NULL_PTR \/ max_len = 0 THEN [ret |-> -1, out |-> <<>>]
    ELSE IF Len(hex_str) % 2 # 0 THEN [ret |-> -1, out |-> <<>>]
    ELSE IF Len(hex_str) \div 2 > max_len THEN [ret |-> -1, out |-> <<>>]
    ELSE ParseHexLoop(hex_str, <<>>, max_len)

RECURSIVE ParseMACLoop(_, _, _)
\* the for loop of ParseMACString: mac holds mac_bytes[0..i)
ParseMACLoop(mac_str, i, mac) ==
    IF i >= 6 THEN [ret |-> 0, mac |-> mac]
    ELSE LET hi == ParseHexNibble(CharAt(mac_str, i * 3))
         IN  IF hi = 255 THEN [ret |-> -1, mac |-> mac]
             ELSE LET lo == ParseHexNibble(CharAt(mac_str, i * 3 + 1))
                  IN  IF lo = 255 THEN [ret |-> -1, mac |-> mac]
                      ELSE IF i < 5 /\ CharAt(mac_str, i * 3 + 2) # 58
                           THEN [ret |-> -1,
                                 mac |-> Append(mac, (hi * 16 + lo) % 256)]
                           ELSE ParseMACLoop(mac_str, i + 1,
                                    Append(mac, (hi * 16 + lo) % 256))

ParseMACString(mac_str) ==
    IF mac_str = NULL_PTR THEN [ret |-> -1, mac |-> <<>>]
    ELSE ParseMACLoop(mac_str, 0, <<>>)

(***************************************************************************)
(* The state the handlers work on, as one record: the mode controller's    *)
(* statics, the device records, the tick read by HAL_GetTick(), the lines  *)
(* written by AT_Response_Send and the collaborator calls made so far in   *)
(* this step, the results (TRUE: success) the collaborators will give to   *)
(* the next calls, and the handler's return value.                         *)
(***************************************************************************)
Sys(oks) ==
    [current_mode |-> current_mode,
     target_dev_idx |-> target_dev_idx,
     target_char_handle |-> target_char_handle,
     data_tx_buffer |-> data_tx_buffer,
     data_tx_len |-> data_tx_len,
     escape_count |-> escape_count,
     last_char_time |-> last_char_time,
     escape_start_time |-> escape_start_time,
     escape_detected |-> escape_detected,
     devices |-> devices,
     now |-> tick,
     uart |-> <<>>,
     calls |-> <<>>,
     oks |-> oks,
     ret |-> 0]

\* AT_Response_Send: one more line on the serial port
AT_Response_Send(s, tag, args) ==
    [s EXCEPT !.uart = Append(@, [tag |-> tag, args |-> args])]

\* the result of the next collaborator call
NextOk(s) == s.oks = <<>> \/ Head(s.oks)

\* a call of a collaborator (BLE stack, configuration, power), with its result
Call(s, fn, args) ==
    [s EXCEPT !.calls = Append(@, [fn |-> fn, args |-> args, ok |-> NextOk(s)]),
              !.oks = IF @ = <<>> THEN <<>> ELSE Tail(@)]

\* a call of a collaborator whose answer is read from the device records
Lookup(s, fn, args) ==
    [s EXCEPT !.calls = Append(@, [fn |-> fn, args |-> args, ok |-> TRUE])]

\* BLE_DeviceManager_GetDevice(idx) != NULL
HasDevice(devs, idx) == idx >= 0 /\ idx < Len(devs)

\* *BLE_DeviceManager_GetDevice(idx)
Device(devs, idx) == devs[idx + 1]

\* !(dev == NULL || !dev->is_connected)
DevConnected(devs, idx) == HasDevice(devs, idx) /\ Device(devs, idx).is_connected

\* current_time - last_char_time, in uint32_t arithmetic
TickDiff(a, b) == (a - b + TICK_MOD) % TICK_MOD

RECURSIVE Module_Mode_EnterCommand(_), Module_Mode_FlushTxBuffer(_)

\* a faulty variant of Module_Mode_EnterCommand: the target characteristic
\* handle is left as it was
EnterCommand_KeepsHandle(s) ==
    IF s.current_mode = MODE_COMMAND THEN [s EXCEPT !.ret = 0]
    ELSE LET s1 == Module_Mode_FlushTxBuffer(s)
             s2 == [s1 EXCEPT !.current_mode = MODE_COMMAND,
                              !.target_dev_idx = NO_DEVICE,
                              !.escape_count = 0,
                              !.escape_detected = 0]
         IN  [AT_Response_Send(s2, "+CMDMODE", <<>>) EXCEPT !.ret = 0]

\* a faulty variant of Module_Mode_EnterCommand: the mode is switched before
\* the pending data is flushed
EnterCommand_SwitchFirst(s) ==
    IF s.current_mode = MODE_COMMAND THEN [s EXCEPT !.ret = 0]
    ELSE LET s1 == Module_Mode_FlushTxBuffer(
                       [s EXCEPT !.current_mode = MODE_COMMAND])
             s2 == [s1 EXCEPT !.target_dev_idx = NO_DEVICE,
                              !.target_char_handle = 0,
                              !.escape_count = 0,
                              !.escape_detected = 0]
         IN  [AT_Response_Send(s2, "+CMDMODE", <<>>) EXCEPT !.ret = 0]

Module_Mode_FlushTxBuffer(s) ==
    IF s.data_tx_len = 0 THEN [s EXCEPT !.ret = 0]
    ELSE IF s.current_mode # MODE_DATA
    THEN [s EXCEPT !.data_tx_len = 0, !.data_tx_buffer = <<>>, !.ret = 0]
    ELSE IF ~DevConnected(s.devices, s.target_dev_idx)
    THEN [Module_Mode_EnterCommand(
              [s EXCEPT !.data_tx_len = 0, !.data_tx_buffer = <<>>])
          EXCEPT !.ret = -1]
    ELSE LET ok == NextOk(s)
             s1 == Call(s, "BLE_GATT_WriteCharacteristic",
                        <<Device(s.devices, s.target_dev_idx).conn_handle,
                          s.target_char_handle, s.data_tx_buffer>>)
             s2 == [s1 EXCEPT !.data_tx_len = 0, !.data_tx_buffer = <<>>]
         IN  IF ok THEN [s2 EXCEPT !.ret = s2.data_tx_len]
             ELSE [s2 EXCEPT !.ret = -1]

Module_Mode_EnterCommand(s) ==
    IF s.current_mode = MODE_COMMAND THEN [s EXCEPT !.ret = 0]
    ELSE LET s1 == Module_Mode_FlushTxBuffer(s)
             s2 == [s1 EXCEPT !.current_mode = MODE_COMMAND,
                              !.target_dev_idx = NO_DEVICE,
                              !.target_char_handle = 0,
                              !.escape_count = 0,
                              !.escape_detected = 0]
         IN  [AT_Response_Send(s2, "+CMDMODE", <<>>) EXCEPT !.ret = 0]

\* a faulty variant of Module_Mode_EnterData: the device must exist, but its
\* link is not looked at
EnterData_NoLinkCheck(s, dev_idx, char_handle) ==
    IF ~HasDevice(s.devices, dev_idx) THEN [s EXCEPT !.ret = -1]
    ELSE LET s1 == [s EXCEPT !.current_mode = MODE_DATA,
                             !.target_dev_idx = dev_idx,
                             !.target_char_handle = char_handle,
                             !.data_tx_len = 0,
                             !.data_tx_buffer = <<>>,
                             !.escape_count = 0,
                             !.escape_detected = 0,
                             !.last_char_time = s.now]
         IN  [AT_Response_Send(s1, "+DATAMODE", <<>>) EXCEPT !.ret = 0]

Module_Mode_EnterData(s, dev_idx, char_handle) ==
    IF ~DevConnected(s.devices, dev_idx) THEN [s EXCEPT !.ret = -1]
    ELSE LET s1 == [s EXCEPT !.current_mode = MODE_DATA,
                             !.target_dev_idx = dev_idx,
                             !.target_char_handle = char_handle,
                             !.data_tx_len = 0,
                             !.data_tx_buffer = <<>>,
                             !.escape_count = 0,
                             !.escape_detected = 0,
                             !.last_char_time = s.now]
         IN  [AT_Response_Send(s1, "+DATAMODE", <<>>) EXCEPT !.ret = 0]

\* data_tx_buffer[data_tx_len++] = byte
TxAppend(s, byte) ==
    [s EXCEPT !.data_tx_buffer = Append(@, byte), !.data_tx_len = @ + 1]

RECURSIVE TxAppendRun(_, _)
\* for (i = 0; i < escape_count && data_tx_len < DATA_TX_BUFFER_SIZE; i++)
\*     data_tx_buffer[data_tx_len++] = ESCAPE_SEQ_CHAR;       (n: what is left)
TxAppendRun(s, n) ==
    IF n > 0 /\ s.data_tx_len < DATA_TX_BUFFER_SIZE
    THEN TxAppendRun(TxAppend(s, ESCAPE_SEQ_CHAR), n - 1)
    ELSE s

\* Module_Mode_ProcessDataByte from "Add byte to TX buffer" to its end
ProcessDataByte_Buffer(s, byte, time_since_last) ==
    LET s1 == IF s.data_tx_len < DATA_TX_BUFFER_SIZE
              THEN TxAppend(s, byte)
              ELSE TxAppend(Module_Mode_FlushTxBuffer(s), byte)
        s2 == [s1 EXCEPT !.last_char_time = s.now]
    IN  IF s2.data_tx_len >= DATA_TX_BUFFER_SIZE - DATA_TX_FLUSH_MARGIN
           \/ time_since_last > DATA_FLUSH_GAP_MS
        THEN Module_Mode_FlushTxBuffer(s2)
        ELSE s2

\* a faulty variant: the first '+' starts a run whatever the silence before it
ProcessDataByte_NoLeadingGuard(s, byte) ==
    LET time_since_last == TickDiff(s.now, s.last_char_time)
    IN  IF byte = ESCAPE_SEQ_CHAR
        THEN IF s.escape_count = 0
             THEN ProcessDataByte_Buffer(
                      [s EXCEPT !.escape_start_time = s.now,
                                !.escape_count = 1],
                      byte, time_since_last)
             ELSE IF s.escape_count < ESCAPE_SEQ_LENGTH
             THEN IF s.escape_count + 1 = ESCAPE_SEQ_LENGTH
                  THEN [s EXCEPT !.escape_count = @ + 1,
                                 !.escape_detected = 1,
                                 !.last_char_time = s.now]
                  ELSE ProcessDataByte_Buffer(
                           [s EXCEPT !.escape_count = @ + 1],
                           byte, time_since_last)
             ELSE ProcessDataByte_Buffer(s, byte, time_since_last)
        ELSE LET s1 == IF s.escape_count > 0
                          /\ s.escape_count < ESCAPE_SEQ_LENGTH
                       THEN TxAppendRun(s, s.escape_count)
                       ELSE s
             IN  ProcessDataByte_Buffer([s1 EXCEPT !.escape_count = 0],
                                        byte, time_since_last)

Module_Mode_ProcessDataByte(s, byte) ==
    LET time_since_last == TickDiff(s.now, s.last_char_time)
    IN  IF byte = ESCAPE_SEQ_CHAR
        THEN IF s.escape_count = 0
             THEN IF time_since_last >= ESCAPE_GUARD_TIME_MS
                  THEN ProcessDataByte_Buffer(
                           [s EXCEPT !.escape_start_time = s.now,
                                     !.escape_count = 1],
                           byte, time_since_last)
                  ELSE ProcessDataByte_Buffer(s, byte, time_since_last)
             ELSE IF s.escape_count < ESCAPE_SEQ_LENGTH
             THEN IF s.escape_count + 1 = ESCAPE_SEQ_LENGTH
                  THEN [s EXCEPT !.escape_count = @ + 1,
                                 !.escape_detected = 1,
                                 !.last_char_time = s.now]
                  ELSE ProcessDataByte_Buffer(
                           [s EXCEPT !.escape_count = @ + 1],
                           byte, time_since_last)
             ELSE ProcessDataByte_Buffer(s, byte, time_since_last)
        ELSE LET s1 == IF s.escape_count > 0
                          /\ s.escape_count < ESCAPE_SEQ_LENGTH
                       THEN TxAppendRun(s, s.escape_count)
                       ELSE s
             IN  ProcessDataByte_Buffer([s1 EXCEPT !.escape_count = 0],
                                        byte, time_since_last)

\* a faulty variant of Module_Mode_IsEscapeDetected: the trailing guard
\* compared with > instead of >=
IsEscapeDetected_StrictGuard(s) ==
    IF s.escape_detected # 0
       /\ TickDiff(s.now, s.last_char_time) > ESCAPE_GUARD_TIME_MS
    THEN [s EXCEPT !.escape_detected = 0, !.escape_count = 0, !.ret = 1]
    ELSE [s EXCEPT !.ret = 0]

Module_Mode_IsEscapeDetected(s) ==
    IF s.escape_detected # 0
       /\ TickDiff(s.now, s.last_char_time) >= ESCAPE_GUARD_TIME_MS
    THEN [s EXCEPT !.escape_detected = 0, !.escape_count = 0, !.ret = 1]
    ELSE [s EXCEPT !.ret = 0]

\* HAL_UART_Transmit(&hlpuart1, data, len, 100): the bytes go out on the
\* serial port as they are
HAL_UART_Transmit(s, data) ==
    [s EXCEPT !.uart = Append(@, [tag |-> "HAL_UART_Transmit",
                                  args |-> <<data>>])]

\* a faulty variant of Module_Mode_ProcessGATTData: the attribute handle is
\* not compared with the target characteristic handle
ProcessGATTData_AnyHandle(s, conn_handle, handle, data) ==
    IF s.current_mode # MODE_DATA THEN s
    ELSE IF \/ ~HasDevice(s.devices, s.target_dev_idx)
            \/ Device(s.devices, s.target_dev_idx).conn_handle # conn_handle
    THEN s
    ELSE HAL_UART_Transmit(s, data)

Module_Mode_ProcessGATTData(s, conn_handle, handle, data) ==
    IF s.current_mode # MODE_DATA THEN s
    ELSE IF \/ ~HasDevice(s.devices, s.target_dev_idx)
            \/ Device(s.devices, s.target_dev_idx).conn_handle # conn_handle
    THEN s
    ELSE IF handle # s.target_char_handle THEN s
    ELSE HAL_UART_Transmit(s, data)

(***************************************************************************)
(* The command literals of AT_Command_Process, as character codes.         *)
(***************************************************************************)
\* "AT"
STR_AT == <<65, 84>>
\* "AT+SCAN"
STR_AT_SCAN == <<65, 84, 43, 83, 67, 65, 78>>
\* "AT+STOP"
STR_AT_STOP == <<65, 84, 43, 83, 84, 79, 80>>
\* "AT+CLEAR"
STR_AT_CLEAR == <<65, 84, 43, 67, 76, 69, 65, 82>>
\* "AT+LIST"
STR_AT_LIST == <<65, 84, 43, 76, 73, 83, 84>>
\* "AT+CONNECT="
STR_AT_CONNECT == <<65, 84, 43, 67, 79, 78, 78, 69, 67, 84, 61>>
\* "AT+DISCONNECT="
STR_AT_DISCONNECT == <<65, 84, 43, 68, 73, 83, 67, 79, 78, 78, 69, 67, 84, 61>>
\* "AT+READ="
STR_AT_READ == <<65, 84, 43, 82, 69, 65, 68, 61>>
\* "AT+WRITE="
STR_AT_WRITE == <<65, 84, 43, 87, 82, 73, 84, 69, 61>>
\* "AT+NOTIFY="
STR_AT_NOTIFY == <<65, 84, 43, 78, 79, 84, 73, 70, 89, 61>>
\* "AT+DISC="
STR_AT_DISC == <<65, 84, 43, 68, 73, 83, 67, 61>>
\* "AT+INFO="
STR_AT_INFO == <<65, 84, 43, 73, 78, 70, 79, 61>>
\* "AT+RESET"
STR_AT_RESET == <<65, 84, 43, 82, 69, 83, 69, 84>>
\* "AT+HWRESET"
STR_AT_HWRESET == <<65, 84, 43, 72, 87, 82, 69, 83, 69, 84>>
\* "AT+FACTORY"
STR_AT_FACTORY == <<65, 84, 43, 70, 65, 67, 84, 79, 82, 89>>
\* "AT+GETINFO"
STR_AT_GETINFO == <<65, 84, 43, 71, 69, 84, 73, 78, 70, 79>>
\* "AT+NAME="
STR_AT_NAME == <<65, 84, 43, 78, 65, 77, 69, 61>>
\* "AT+COMM="
STR_AT_COMM == <<65, 84, 43, 67, 79, 77, 77, 61>>
\* "AT+RF="
STR_AT_RF == <<65, 84, 43, 82, 70, 61>>
\* "AT+SAVE"
STR_AT_SAVE == <<65, 84, 43, 83, 65, 86, 69>>
\* "AT+CMDMODE"
STR_AT_CMDMODE == <<65, 84, 43, 67, 77, 68, 77, 79, 68, 69>>
\* "AT+DATAMODE="
STR_AT_DATAMODE == <<65, 84, 43, 68, 65, 84, 65, 77, 79, 68, 69, 61>>
\* "AT+STATUS"
STR_AT_STATUS == <<65, 84, 43, 83, 84, 65, 84, 85, 83>>
\* "AT+SLEEP"
STR_AT_SLEEP == <<65, 84, 43, 83, 76, 69, 69, 80>>
\* "AT+WAKE"
STR_AT_WAKE == <<65, 84, 43, 87, 65, 75, 69>>
\* "AT+DIAG="
STR_AT_DIAG == <<65, 84, 43, 68, 73, 65, 71, 61>>

(***************************************************************************)
(* Command handlers (at_command.c:599-1122).                               *)
(***************************************************************************)
\* a handler's last line and return value
Answer(s, tag, r) == [AT_Response_Send(s, tag, <<>>) EXCEPT !.ret = r]

\* a handler ending in "if (ret != 0) ERROR else OK" after one collaborator call
CallAndAnswer(s, fn, args) ==
    LET ok == NextOk(s)
        s1 == Call(s, fn, args)
    IN  IF ok THEN Answer(s1, "OK", 0) ELSE Answer(s1, "ERROR", -1)

AT_SCAN_Handler(s, duration_ms) ==
    CallAndAnswer(s, "BLE_Connection_StartScan", <<duration_ms>>)

\* BLE_DeviceManager_FindDevice: the index of the record with this address, or -1
BLE_DeviceManager_FindDevice(devs, mac) ==
    IF \E i \in 1..Len(devs) : devs[i].mac_addr = mac
    THEN (CHOOSE i \in 1..Len(devs) :
              /\ devs[i].mac_addr = mac
              /\ \A j \in 1..(i - 1) : devs[j].mac_addr # mac) - 1
    ELSE -1

AT_CONNECT_Handler(s, mac_str) ==
    LET parsed == ParseMACString(mac_str)
    IN  IF parsed.ret # 0 THEN Answer(s, "ERROR", -1)
        ELSE LET s1 == Lookup(s, "BLE_DeviceManager_FindDevice", <<parsed.mac>>)
                 dev_idx == BLE_DeviceManager_FindDevice(s.devices, parsed.mac)
             IN  IF dev_idx < 0 THEN Answer(s1, "+ERROR:NOT_FOUND", -1)
                 ELSE CallAndAnswer(s1, "BLE_Connection_CreateConnection",
                                    <<parsed.mac>>)

AT_DISCONNECT_Handler(s, dev_idx) ==
    IF ~DevConnected(s.devices, dev_idx)
    THEN Answer(s, "+ERROR:NOT_CONNECTED", -1)
    ELSE CallAndAnswer(s, "BLE_Connection_TerminateConnection",
                       <<Device(s.devices, dev_idx).conn_handle>>)

\* "%02X:%02X:%02X:%02X:%02X:%02X" of mac_addr[5] .. mac_addr[0]
HexDigitUpper(n) == IF n < 10 THEN 48 + n ELSE 65 + (n - 10)

FormatByteX(b) == <<HexDigitUpper(b \div 16), HexDigitUpper(b % 16)>>

FormatMAC(mac) ==
    FormatByteX(mac[6]) \o <<58>> \o FormatByteX(mac[5]) \o <<58>> \o
    FormatByteX(mac[4]) \o <<58>> \o FormatByteX(mac[3]) \o <<58>> \o
    FormatByteX(mac[2]) \o <<58>> \o FormatByteX(mac[1])

RECURSIVE ListDevices(_, _, _)
\* the for loop of AT_LIST_Handler: one +DEV line per record, from index i
ListDevices(s, i, count) ==
    IF i >= count THEN s
    ELSE IF HasDevice(s.devices, i)
    THEN LET dev == Device(s.devices, i)
         IN  ListDevices(
                 AT_Response_Send(s, "+DEV",
                     <<i, FormatMAC(dev.mac_addr), dev.rssi, dev.conn_handle,
                       dev.name>>),
                 i + 1, count)
    ELSE ListDevices(s, i + 1, count)

AT_LIST_Handler(s) ==
    LET count == Len(s.devices)
        s1 == AT_Response_Send(s, "+LIST", <<count>>)
    IN  Answer(ListDevices(s1, 0, count), "OK", 0)

AT_READ_Handler(s, dev_idx, char_handle) ==
    IF ~DevConnected(s.devices, dev_idx)
    THEN Answer(s, "+ERROR:NOT_CONNECTED", -1)
    ELSE CallAndAnswer(s, "BLE_GATT_ReadCharacteristic",
                       <<Device(s.devices, dev_idx).conn_handle, char_handle>>)

\* a faulty variant of AT_WRITE_Handler: the write goes out on the first
\* record's connection instead of the addressed device's
AT_WRITE_Handler_FirstLink(s, dev_idx, char_handle, data) ==
    IF ~DevConnected(s.devices, dev_idx)
    THEN Answer(s, "+ERROR:NOT_CONNECTED", -1)
    ELSE IF data = NULL_PTR \/ data = <<>>
    THEN Answer(s, "+ERROR:NO_DATA", -1)
    ELSE LET parsed == ParseHexString(data, AT_WRITE_MAX_DATA_LEN)
         IN  IF parsed.ret <= 0 THEN Answer(s, "+ERROR:INVALID_HEX", -1)
             ELSE CallAndAnswer(s, "BLE_GATT_WriteCharacteristic",
                      <<Device(s.devices, 0).conn_handle, char_handle,
                        parsed.out>>)

AT_WRITE_Handler(s, dev_idx, char_handle, data) ==
    IF ~DevConnected(s.devices, dev_idx)
    THEN Answer(s, "+ERROR:NOT_CONNECTED", -1)
    ELSE IF data = NULL_PTR \/ data = <<>>
    THEN Answer(s, "+ERROR:NO_DATA", -1)
    ELSE LET parsed == ParseHexString(data, AT_WRITE_MAX_DATA_LEN)
         IN  IF parsed.ret <= 0 THEN Answer(s, "+ERROR:INVALID_HEX", -1)
             ELSE CallAndAnswer(s, "BLE_GATT_WriteCharacteristic",
                      <<Device(s.devices, dev_idx).conn_handle, char_handle,
                        parsed.out>>)

\* a faulty variant of AT_NOTIFY_Handler: the record must exist, but its
\* link is not looked at
AT_NOTIFY_Handler_ExistsOnly(s, dev_idx, desc_handle, enable) ==
    IF ~HasDevice(s.devices, dev_idx)
    THEN Answer(s, "+ERROR:NOT_CONNECTED", -1)
    ELSE CallAndAnswer(s,
             IF enable # 0 THEN "BLE_GATT_EnableNotification"
                           ELSE "BLE_GATT_DisableNotification",
             <<Device(s.devices, dev_idx).conn_handle, desc_handle>>)

AT_NOTIFY_Handler(s, dev_idx, desc_handle, enable) ==
    IF ~DevConnected(s.devices, dev_idx)
    THEN Answer(s, "+ERROR:NOT_CONNECTED", -1)
    ELSE CallAndAnswer(s,
             IF enable # 0 THEN "BLE_GATT_EnableNotification"
                           ELSE "BLE_GATT_DisableNotification",
             <<Device(s.devices, dev_idx).conn_handle, desc_handle>>)

AT_DISC_Handler(s, dev_idx) ==
    IF ~DevConnected(s.devices, dev_idx)
    THEN Answer(s, "+ERROR:NOT_CONNECTED", -1)
    ELSE CallAndAnswer(s, "BLE_GATT_DiscoverAllServices",
                       <<Device(s.devices, dev_idx).conn_handle>>)

AT_INFO_Handler(s, dev_idx) ==
    IF ~HasDevice(s.devices, dev_idx) THEN Answer(s, "ERROR", -1)
    ELSE Answer(AT_Response_Send(s, "+INFO",
                    <<FormatMAC(Device(s.devices, dev_idx).mac_addr)>>),
                "OK", 0)

\* NVIC_SystemReset(): the program starts again from its initial state
SystemReset(s) ==
    [s EXCEPT !.current_mode = MODE_COMMAND,
              !.target_dev_idx = NO_DEVICE,
              !.target_char_handle = 0,
              !.data_tx_len = 0,
              !.data_tx_buffer = <<>>,
              !.escape_count = 0,
              !.escape_detected = 0,
              !.last_char_time = 0,
              !.escape_start_time = 0,
              !.devices = <<>>]

AT_RESET_Handler(s) ==
    SystemReset(Call(Answer(s, "OK", 0), "Module_System_SoftwareReset", <<>>))

\* Module_System_HardwareReset always returns -1 (module_system.c:95-101)
AT_HWRESET_Handler(s) == Answer(s, "+ERROR:NOT_SUPPORTED", -1)

AT_FACTORY_Handler(s) ==
    SystemReset(Call(Answer(s, "OK", 0), "Module_System_FactoryReset", <<>>))

AT_GETINFO_Handler(s) ==
    LET s1 == AT_Response_Send(s, "+FW", <<>>)
        s2 == AT_Response_Send(s1, "+BLE", <<>>)
        ok == NextOk(s2)
        s3 == Call(s2, "Module_System_GetBDAddr", <<>>)
        s4 == IF ok THEN AT_Response_Send(s3, "+BDADDR", <<>>) ELSE s3
        s5 == AT_Response_Send(s4, "+UPTIME", <<>>)
    IN  Answer(s5, "OK", 0)

AT_NAME_Handler(s, name) ==
    IF name = NULL_PTR \/ name = <<>> THEN Answer(s, "ERROR", -1)
    ELSE CallAndAnswer(s, "Module_Config_SetDeviceName", <<name>>)

\* Module_Config_SetUART (module_config.c:123-144): the parameters are
\* validated and, when valid, copied into current_config.uart; the call's
\* record holds the parameters handed over and whether they were stored
Module_Config_SetUART(s, baud_rate, parity, stop_bits, data_bits) ==
    LET valid == /\ ~(baud_rate < 9600 \/ baud_rate > 921600)
                 /\ ~(parity > 2 \/ stop_bits < 1 \/ stop_bits > 2
                        \/ data_bits < 7 \/ data_bits > 8)
    IN  [s EXCEPT !.calls = Append(@, [fn |-> "Module_Config_SetUART",
                                       args |-> <<baud_rate, parity,
                                                  stop_bits, data_bits>>,
                                       ok |-> valid]),
                  !.ret = IF valid THEN 0 ELSE -1]

AT_COMM_Handler(s, baud, parity, stop) ==
    LET s1 == Module_Config_SetUART(s, baud, parity, stop, 8)
    IN  IF s1.ret = 0
        THEN [Call(Answer(s1, "OK", 0), "Module_Config_ApplyUART", <<>>)
              EXCEPT !.ret = 0]
        ELSE Answer(s1, "ERROR", -1)

\* Module_Config_SetRF (module_config.c:156-171): the TX power is validated
\* and, when valid, the parameters are copied into current_config.rf; the
\* call's record holds the parameters handed over and whether they were
\* stored
Module_Config_SetRF(s, tx_power_dbm, scan_interval, scan_window, conn_interval_min, conn_interval_max) ==
    LET valid == ~(tx_power_dbm < -40 \/ tx_power_dbm > 6)
    IN  [s EXCEPT !.calls = Append(@, [fn |-> "Module_Config_SetRF",
                                       args |-> <<tx_power_dbm, scan_interval,
                                                  scan_window,
                                                  conn_interval_min,
                                                  conn_interval_max>>,
                                       ok |-> valid]),
                  !.ret = IF valid THEN 0 ELSE -1]

AT_RF_Handler(s, tx_power, scan_interval, scan_window) ==
    LET s1 == Module_Config_SetRF(s, tx_power, scan_interval, scan_window,
                                  24, 40)
    IN  IF s1.ret = 0
        THEN Answer(Call(s1, "Module_Config_ApplyRF", <<>>), "OK", 0)
        ELSE Answer(s1, "ERROR", -1)

AT_SAVE_Handler(s) == CallAndAnswer(s, "Module_Config_Save", <<>>)

AT_CMDMODE_Handler(s) ==
    LET s1 == Module_Mode_EnterCommand(s)
    IN  IF s1.ret = 0 THEN Answer(s1, "OK", 0) ELSE Answer(s1, "ERROR", -1)

AT_DATAMODE_Handler(s, dev_idx, char_handle) ==
    LET s1 == Module_Mode_EnterData(s, dev_idx, char_handle)
    IN  IF s1.ret = 0 THEN Answer(s1, "OK", 0)
        ELSE Answer(s1, "+ERROR:NOT_CONNECTED", -1)

RECURSIVE StatusDevices(_, _, _)
\* the for loop of AT_STATUS_Handler
StatusDevices(s, i, count) ==
    IF i >= count THEN s
    ELSE IF HasDevice(s.devices, i)
    THEN LET dev == Device(s.devices, i)
         IN  StatusDevices(
                 AT_Response_Send(s, "+DEV",
                     <<i, dev.is_connected, dev.conn_handle>>),
                 i + 1, count)
    ELSE StatusDevices(s, i + 1, count)

AT_STATUS_Handler(s, dev_idx) ==
    IF dev_idx = 255
    THEN LET count == Len(s.devices)
             s1 == AT_Response_Send(s, "+STATUS", <<count>>)
         IN  Answer(StatusDevices(s1, 0, count), "OK", 0)
    ELSE IF ~HasDevice(s.devices, dev_idx) THEN Answer(s, "ERROR", -1)
    ELSE LET dev == Device(s.devices, dev_idx)
         IN  Answer(AT_Response_Send(s, "+STATUS",
                        <<dev.is_connected, dev.conn_handle, dev.rssi>>),
                    "OK", 0)

AT_SLEEP_Handler(s, mode, wake_mask, timeout_ms) ==
    IF mode < 1 \/ mode > 4 THEN Answer(s, "+ERROR:INVALID_MODE", -1)
    ELSE LET s1 == AT_Response_Send(s, "OK", <<>>)
             s2 == Call(s1, "Module_Power_EnterSleep",
                        <<mode, wake_mask, timeout_ms>>)
         IN  Answer(s2, "+WAKE", 0)

AT_WAKE_Handler(s) == Answer(s, "OK", 0)

AT_DIAG_Handler(s, dev_idx) ==
    IF ~HasDevice(s.devices, dev_idx) THEN Answer(s, "ERROR", -1)
    ELSE LET dev == Device(s.devices, dev_idx)
             s1 == AT_Response_Send(s, "+DIAG:RSSI", <<dev.rssi>>)
             s2 == IF dev.is_connected
                   THEN AT_Response_Send(
                            AT_Response_Send(s1, "+DIAG:CONN_HANDLE",
                                             <<dev.conn_handle>>),
                            "+DIAG:STATUS", <<TRUE>>)
                   ELSE AT_Response_Send(s1, "+DIAG:STATUS", <<FALSE>>)
             s3 == AT_Response_Send(s2, "+DIAG:TX_POWER", <<>>)
         IN  Answer(s3, "OK", 0)

(***************************************************************************)
(* AT_Command_Process (at_command.c:330-595).                              *)
(***************************************************************************)
RECURSIVE TrimTrailing(_)
\* while (len > 0 && (cmd[len-1] is '\r', '\n' or ' ')) cmd[--len] = '\0';
TrimTrailing(cmd) ==
    IF Len(cmd) > 0 /\ cmd[Len(cmd)] \in {ASCII_CR, ASCII_LF, ASCII_SPACE}
    THEN TrimTrailing(SubSeq(cmd, 1, Len(cmd) - 1))
    ELSE cmd

\* (cmd[0] == 'A' || cmd[0] == 'a') && (cmd[1] == 'T' || cmd[1] == 't')
StartsWithAT(cmd) ==
    /\ CharAt(cmd, 0) \in {65, 97}
    /\ CharAt(cmd, 1) \in {84, 116}

\* (int8_t) of a uint8_t
ToInt8(v) == IF v >= 128 THEN v - 256 ELSE v

\* the if / else-if chain that routes a trimmed line starting with "AT"
Dispatch(s, cmd) ==
    IF cmd = STR_AT THEN Answer(s, "OK", 0)
    ELSE IF HasPrefix(cmd, STR_AT_SCAN)
    THEN LET parsed == IF CharAt(cmd, 7) = 61 /\ CharAt(cmd, 8) # 0
                       THEN ParseUInt16(From(cmd, 8)) ELSE 0
         IN  AT_SCAN_Handler(s, IF parsed > 0 THEN parsed ELSE 5000)
    ELSE IF cmd = STR_AT_STOP
    THEN CallAndAnswer(s, "BLE_Connection_StopScan", <<>>)
    ELSE IF cmd = STR_AT_CLEAR
    THEN Answer([Lookup(s, "BLE_DeviceManager_Clear", <<>>)
                     EXCEPT !.devices = <<>>], "OK", 0)
    ELSE IF HasPrefix(cmd, STR_AT_LIST) THEN AT_LIST_Handler(s)
    ELSE IF HasPrefix(cmd, STR_AT_CONNECT)
    THEN AT_CONNECT_Handler(s, From(cmd, 11))
    ELSE IF HasPrefix(cmd, STR_AT_DISCONNECT)
    THEN LET idx == ParseUInt8(From(cmd, 14))
         IN  IF idx # 255 THEN AT_DISCONNECT_Handler(s, idx)
             ELSE Answer(s, "ERROR", 0)
    ELSE IF HasPrefix(cmd, STR_AT_READ)
    THEN LET idx == ParseUInt8(From(cmd, 8))
             p == SkipToComma(From(cmd, 8))
         IN  IF p # NULL_PTR /\ idx # 255
             THEN LET handle == ParseUInt16(p)
                  IN  IF handle > 0 THEN AT_READ_Handler(s, idx, handle)
                      ELSE Answer(s, "ERROR", 0)
             ELSE Answer(s, "ERROR", 0)
    ELSE IF HasPrefix(cmd, STR_AT_WRITE)
    THEN LET idx == ParseUInt8(From(cmd, 9))
             p == SkipToComma(From(cmd, 9))
         IN  IF p # NULL_PTR /\ idx # 255
             THEN LET handle == ParseUInt16(p)
                      p2 == SkipToComma(p)
                  IN  IF p2 # NULL_PTR /\ handle > 0 /\ p2 # <<>>
                      THEN AT_WRITE_Handler(s, idx, handle, p2)
                      ELSE Answer(s, "ERROR", 0)
             ELSE Answer(s, "ERROR", 0)
    ELSE IF HasPrefix(cmd, STR_AT_NOTIFY)
    THEN LET idx == ParseUInt8(From(cmd, 10))
             p == SkipToComma(From(cmd, 10))
         IN  IF p # NULL_PTR /\ idx # 255
             THEN LET handle == ParseUInt16(p)
                      p2 == SkipToComma(p)
                  IN  IF p2 # NULL_PTR /\ handle > 0
                      THEN LET enable == ParseUInt8(p2)
                           IN  IF enable # 255
                               THEN AT_NOTIFY_Handler(s, idx, handle, enable)
                               ELSE Answer(s, "ERROR", 0)
                      ELSE Answer(s, "ERROR", 0)
             ELSE Answer(s, "ERROR", 0)
    ELSE IF HasPrefix(cmd, STR_AT_DISC)
    THEN LET idx == ParseUInt8(From(cmd, 8))
         IN  IF idx # 255 THEN AT_DISC_Handler(s, idx)
             ELSE Answer(s, "ERROR", 0)
    ELSE IF HasPrefix(cmd, STR_AT_INFO)
    THEN LET idx == ParseUInt8(From(cmd, 8))
         IN  IF idx # 255 THEN AT_INFO_Handler(s, idx)
             ELSE Answer(s, "ERROR", 0)
    ELSE IF cmd = STR_AT_RESET THEN AT_RESET_Handler(s)
    ELSE IF cmd = STR_AT_HWRESET THEN AT_HWRESET_Handler(s)
    ELSE IF cmd = STR_AT_FACTORY THEN AT_FACTORY_Handler(s)
    ELSE IF cmd = STR_AT_GETINFO THEN AT_GETINFO_Handler(s)
    ELSE IF HasPrefix(cmd, STR_AT_NAME) THEN AT_NAME_Handler(s, From(cmd, 8))
    ELSE IF HasPrefix(cmd, STR_AT_COMM)
    THEN LET baud == ParseUInt16(From(cmd, 8))
             p == SkipToComma(From(cmd, 8))
         IN  IF p # NULL_PTR
             THEN LET parity == ParseUInt8(p)
                      p2 == SkipToComma(p)
                  IN  IF p2 # NULL_PTR
                      THEN AT_COMM_Handler(s, baud, parity, ParseUInt8(p2))
                      ELSE Answer(s, "ERROR", 0)
             ELSE Answer(s, "ERROR", 0)
    ELSE IF HasPrefix(cmd, STR_AT_RF)
    THEN LET tx_power == ToInt8(ParseUInt8(From(cmd, 6)))
             p == SkipToComma(From(cmd, 6))
         IN  IF p # NULL_PTR
             THEN LET scan_int == ParseUInt16(p)
                      p2 == SkipToComma(p)
                  IN  IF p2 # NULL_PTR
                      THEN AT_RF_Handler(s, tx_power, scan_int, ParseUInt16(p2))
                      ELSE Answer(s, "ERROR", 0)
             ELSE Answer(s, "ERROR", 0)
    ELSE IF cmd = STR_AT_SAVE THEN AT_SAVE_Handler(s)
    ELSE IF cmd = STR_AT_CMDMODE THEN AT_CMDMODE_Handler(s)
    ELSE IF HasPrefix(cmd, STR_AT_DATAMODE)
    THEN LET idx == ParseUInt8(From(cmd, 12))
             p == SkipToComma(From(cmd, 12))
         IN  IF p # NULL_PTR /\ idx # 255
             THEN LET handle == ParseUInt16(p)
                  IN  IF handle > 0 THEN AT_DATAMODE_Handler(s, idx, handle)
                      ELSE Answer(s, "ERROR", 0)
             ELSE Answer(s, "ERROR", 0)
    ELSE IF HasPrefix(cmd, STR_AT_STATUS)
    THEN AT_STATUS_Handler(s,
             IF CharAt(cmd, 9) = 61 /\ CharAt(cmd, 10) # 0
             THEN ParseUInt8(From(cmd, 10)) ELSE 255)
    ELSE IF HasPrefix(cmd, STR_AT_SLEEP)
    THEN IF CharAt(cmd, 8) = 61 /\ CharAt(cmd, 9) # 0
         THEN LET mode == ParseUInt8(From(cmd, 9))
                  p == SkipToComma(From(cmd, 9))
              IN  IF p # NULL_PTR
                  THEN LET p2 == SkipToComma(p)
                       IN  AT_SLEEP_Handler(s, mode, ParseUInt8(p),
                               IF p2 # NULL_PTR THEN ParseUInt16(p2) ELSE 0)
                  ELSE AT_SLEEP_Handler(s, mode, 1, 0)
         ELSE AT_SLEEP_Handler(s, 1, 1, 0)
    ELSE IF cmd = STR_AT_WAKE THEN AT_WAKE_Handler(s)
    ELSE IF HasPrefix(cmd, STR_AT_DIAG)
    THEN LET idx == ParseUInt8(From(cmd, 8))
         IN  IF idx # 255 THEN AT_DIAG_Handler(s, idx)
             ELSE Answer(s, "ERROR", 0)
    ELSE s

\* a faulty variant of AT_Command_Process: a line that starts with "AT" and
\* matches no command is answered with ERROR
AT_Command_Process_UnknownAnswered(s, cmd_line) ==
    IF cmd_line = NULL_PTR \/ cmd_line = <<>> THEN s
    ELSE LET cmd == TrimTrailing(
                        SubSeq(cmd_line, 1,
                               IF Len(cmd_line) < CMD_LOCAL_LEN - 1
                               THEN Len(cmd_line) ELSE CMD_LOCAL_LEN - 1))
         IN  IF Len(cmd) < 2 THEN s
             ELSE IF ~StartsWithAT(cmd) THEN s
             ELSE LET r == Dispatch(s, cmd)
                  IN  IF r.uart = <<>> THEN Answer(r, "ERROR", -1) ELSE r

AT_Command_Process(s, cmd_line) ==
    IF cmd_line = NULL_PTR \/ cmd_line = <<>> THEN s
    ELSE LET cmd == TrimTrailing(
                        SubSeq(cmd_line, 1,
                               IF Len(cmd_line) < CMD_LOCAL_LEN - 1
                               THEN Len(cmd_line) ELSE CMD_LOCAL_LEN - 1))
         IN  IF Len(cmd) < 2 THEN s
             ELSE IF ~StartsWithAT(cmd) THEN s
             ELSE Dispatch(s, cmd)

(***************************************************************************)
(* Initial values (AT_Command_Init, Module_Mode_Init, the statics'         *)
(* initialisers) and the step from a handler's result to the next state.   *)
(***************************************************************************)
\* the longest run of excess bytes the history follows: one more than
\* the receive timeout allows
MaxExcess == AT_RX_TIMEOUT_MS + 1

\* rx_long after a step of the deferred task that is not the drain
RxLongKept == IF at_cmd_ready # 0 THEN 0 ELSE rx_long


RxInit ==
    /\ at_line_buf = <<>>
    /\ at_line_idx = 0
    /\ at_cmd_ready = 0
    /\ at_garbage_count = 0
    /\ at_rx_tick = 0
    /\ at_cmd_buf = <<>>
    /\ proc_pc = "idle"
    /\ task_pending = FALSE
    /\ rx_fed = <<>>
    /\ rx_raised = <<>>
    /\ rx_long = 0

ModeInit ==
    /\ current_mode = MODE_COMMAND
    /\ target_dev_idx = NO_DEVICE
    /\ target_char_handle = 0
    /\ data_tx_buffer = <<>>
    /\ data_tx_len = 0
    /\ escape_count = 0
    /\ last_char_time = 0
    /\ escape_start_time = 0
    /\ escape_detected = 0

\* what a step records of itself
Op(name) ==
    [op |-> name, line |-> <<>>, byte |-> 0, idx |-> 0, handle |-> 0,
     mode |-> current_mode, pending |-> FALSE, complete |-> FALSE,
     abandoned |-> FALSE]

ObsInit ==
    /\ last_op = Op("init")
    /\ uart_out = <<>>
    /\ calls = <<>>
    /\ ret = 0

HistInit ==
    /\ idle = 0
    /\ rx_log = <<>>
    /\ gatt_log = <<>>
    /\ abandoned = FALSE
    /\ write_failed = FALSE

\* static char response_buf[AT_CMD_MAX_LEN], zero-initialised
NoLine == [tag |-> "", args |-> <<>>]

WireInit ==
    /\ response_buf = NoLine
    /\ tx_queue = <<>>
    /\ tx_pc = "idle"
    /\ tx_part = 0
    /\ wire = <<>>

\* the statics of module_power.c as the loader leaves them
PowerInit ==
    /\ power_mode = POWER_MODE_RUN
    /\ is_sleeping = 0
    /\ wake_sources = 0

FnInit ==
    /\ fn_in = <<>>
    /\ fn_out = <<>>
    /\ WireInit
    /\ PowerInit

(***************************************************************************)
(* The power manager (module_power.c).  Its functions work on a record of  *)
(* the file's statics, of the calls made so far and of the value returned. *)
(***************************************************************************)
PowerState ==
    [current_mode |-> power_mode,
     is_sleeping |-> is_sleeping,
     wake_sources |-> wake_sources,
     calls |-> <<>>,
     ret |-> 0]

\* a call of the HAL, of the low power manager or of the BLE connection
\* manager
PowerCall(p, fn, args) ==
    [p EXCEPT !.calls = Append(@, [fn |-> fn, args |-> args, ok |-> TRUE])]

\* mask & bit, for a bit that is a power of two
HasBit(mask, bit) == (mask \div bit) % 2 = 1

Module_Power_Init(p) ==
    PowerCall([p EXCEPT !.current_mode = POWER_MODE_RUN,
                        !.is_sleeping = 0,
                        !.wake_sources = WAKE_SOURCE_UART + WAKE_SOURCE_BLE],
              "UTIL_LPM_Init", <<>>)

Module_Power_ConfigureWake(p, wake_mask) ==
    LET p1 == [p EXCEPT !.wake_sources = wake_mask]
    IN  IF HasBit(wake_mask, WAKE_SOURCE_UART)
        THEN PowerCall(p1, "__HAL_UART_ENABLE_IT", <<>>)
        ELSE p1

Module_Power_DisablePeripherals(p) ==
    LET p1 == IF ~HasBit(p.wake_sources, WAKE_SOURCE_UART)
              THEN PowerCall(p, "HAL_UART_MspDeInit", <<>>)
              ELSE p
    IN  IF p1.current_mode >= POWER_MODE_STOP2
        THEN PowerCall(p1, "BLE_Connection_StopScan", <<>>)
        ELSE p1

Module_Power_EnablePeripherals(p) ==
    IF ~HasBit(p.wake_sources, WAKE_SOURCE_UART)
    THEN PowerCall(p, "HAL_UART_MspInit", <<>>)
    ELSE p

\* Module_Power_EnterSleep for a mode other than POWER_MODE_RUN, up to the
\* call that stops the processor (module_power.c:57-97); an unknown mode
\* returns -1 from here
Module_Power_EnterSleep_Enter(p, mode, wake_mask) ==
    LET p1 == [p EXCEPT !.wake_sources = wake_mask]
        p2 == Module_Power_ConfigureWake(p1, wake_mask)
        p3 == Module_Power_DisablePeripherals(p2)
        p4 == [p3 EXCEPT !.is_sleeping = 1, !.current_mode = mode]
    IN  IF mode = POWER_MODE_SLEEP
        THEN PowerCall(PowerCall(PowerCall(p4,
                 "UTIL_LPM_SetOffMode", <<0>>),
                 "UTIL_LPM_SetStopMode", <<0>>),
                 "UTIL_LPM_EnterLowPower", <<>>)
        ELSE IF mode \in {POWER_MODE_STOP0, POWER_MODE_STOP1, POWER_MODE_STOP2}
        THEN PowerCall(PowerCall(PowerCall(p4,
                 "UTIL_LPM_SetOffMode", <<0>>),
                 "UTIL_LPM_SetStopMode", <<1>>),
                 "UTIL_LPM_EnterLowPower", <<>>)
        ELSE IF mode = POWER_MODE_STANDBY
        THEN PowerCall(p4, "HAL_PWR_EnterSTANDBYMode", <<>>)
        ELSE [p4 EXCEPT !.is_sleeping = 0,
                        !.current_mode = POWER_MODE_RUN,
                        !.ret = -1]

\* the rest of Module_Power_EnterSleep, after the wake-up
\* (module_power.c:99-105)
Module_Power_EnterSleep_Wake(p) ==
    LET p1 == [p EXCEPT !.is_sleeping = 0, !.current_mode = POWER_MODE_RUN]
    IN  [Module_Power_EnablePeripherals(p1) EXCEPT !.ret = 0]

\* the whole call, from entry to return
Module_Power_EnterSleep(p, mode, wake_mask, timeout_ms) ==
    IF mode = POWER_MODE_RUN THEN [p EXCEPT !.ret = 0]
    ELSE LET p1 == Module_Power_EnterSleep_Enter(p, mode, wake_mask)
         IN  IF p1.is_sleeping = 0 THEN p1
             ELSE Module_Power_EnterSleep_Wake(p1)

\* the power manager's statics become those of the record
PowerCommit(p) ==
    /\ power_mode' = p.current_mode
    /\ is_sleeping' = p.is_sleeping
    /\ wake_sources' = p.wake_sources

\* the power manager after a command whose handler made the calls cs: a
\* handler calls Module_Power_EnterSleep once at most
PowerAfter(cs) ==
    LET sl == SelectSeq(cs, LAMBDA c : c.fn = "Module_Power_EnterSleep")
    IN  IF sl = <<>> THEN PowerState
        ELSE Module_Power_EnterSleep(PowerState, sl[1].args[1],
                                     sl[1].args[2], sl[1].args[3])

\* the handler has run: its result becomes the state
Commit(s) ==
    /\ current_mode' = s.current_mode
    /\ target_dev_idx' = s.target_dev_idx
    /\ target_char_handle' = s.target_char_handle
    /\ data_tx_buffer' = s.data_tx_buffer
    /\ data_tx_len' = s.data_tx_len
    /\ escape_count' = s.escape_count
    /\ last_char_time' = s.last_char_time
    /\ escape_start_time' = s.escape_start_time
    /\ escape_detected' = s.escape_detected
    /\ devices' = s.devices
    /\ uart_out' = s.uart
    /\ calls' = s.calls
    /\ ret' = s.ret

\* the results the collaborators may give to the calls of one step
OkSeqs == {<<a, b>> : a \in BOOLEAN, b \in BOOLEAN}

\* the same for steps that make one call at most
OkOne == {<<a>> : a \in BOOLEAN}

(***************************************************************************)
(* The line receiver (at_command.c:238-304).  at_line_buf holds the bytes  *)
(* of the array the program can still read: at_line_buf[0 .. at_line_idx), *)
(* and the terminating NUL once the line is complete.                      *)
(***************************************************************************)
\* a faulty variant of AT_Command_ReceiveByte: a printable byte that finds
\* the line buffer full starts the line again
ReceiveByte_Accept_Restart(cur, byte) ==
    IF IsTerminator(byte)
    THEN IF cur.idx >= 2
         THEN [cur EXCEPT !.buf = Append(@, 0), !.ready = 1,
                          !.garbage = 0, !.rx_tick = 0, !.task = TRUE]
         ELSE [cur EXCEPT !.buf = <<>>, !.idx = 0]
    ELSE IF IsPrintable(byte)
    THEN IF cur.idx < AT_CMD_MAX_LEN - 1
         THEN [cur EXCEPT !.buf = Append(@, byte), !.idx = @ + 1,
                          !.rx_tick = 0, !.garbage = 0]
         ELSE [cur EXCEPT !.buf = <<byte>>, !.idx = 1,
                          !.rx_tick = 0, !.garbage = 0]
    ELSE IF cur.garbage + 1 > AT_MAX_GARBAGE
         THEN [cur EXCEPT !.buf = <<>>, !.idx = 0, !.garbage = 0]
         ELSE [cur EXCEPT !.garbage = @ + 1]

\* a faulty variant of AT_Command_ReceiveByte: printable bytes are stored
\* up to the last element of the line buffer
ReceiveByte_Accept_FillWhole(cur, byte) ==
    LET t == IF cur.idx > 0 /\ cur.rx_tick > AT_RX_TIMEOUT_MS
             THEN [cur EXCEPT !.buf = <<>>, !.idx = 0, !.garbage = 0,
                              !.rx_tick = 0]
             ELSE cur
    IN  IF IsTerminator(byte)
        THEN IF t.idx >= 2
             THEN [t EXCEPT !.buf = Append(@, 0), !.ready = 1,
                            !.garbage = 0, !.rx_tick = 0, !.task = TRUE]
             ELSE [t EXCEPT !.buf = <<>>, !.idx = 0]
        ELSE IF IsPrintable(byte)
        THEN IF t.idx < AT_CMD_MAX_LEN
             THEN [t EXCEPT !.buf = Append(@, byte), !.idx = @ + 1,
                            !.rx_tick = 0, !.garbage = 0]
             ELSE t
        ELSE IF t.garbage + 1 > AT_MAX_GARBAGE
             THEN [t EXCEPT !.buf = <<>>, !.idx = 0, !.garbage = 0]
             ELSE [t EXCEPT !.garbage = @ + 1]

\* a faulty variant of AT_Command_ReceiveByte: the byte that takes the
\* garbage counter above its limit zeroes the counter and keeps the line
ReceiveByte_Accept_KeepLine(cur, byte) ==
    LET t == IF cur.idx > 0 /\ cur.rx_tick > AT_RX_TIMEOUT_MS
             THEN [cur EXCEPT !.buf = <<>>, !.idx = 0, !.garbage = 0,
                              !.rx_tick = 0]
             ELSE cur
    IN  IF IsTerminator(byte)
        THEN IF t.idx >= 2
             THEN [t EXCEPT !.buf = Append(@, 0), !.ready = 1,
                            !.garbage = 0, !.rx_tick = 0, !.task = TRUE]
             ELSE [t EXCEPT !.buf = <<>>, !.idx = 0]
        ELSE IF IsPrintable(byte)
        THEN IF t.idx < AT_CMD_MAX_LEN - 1
             THEN [t EXCEPT !.buf = Append(@, byte), !.idx = @ + 1,
                            !.rx_tick = 0, !.garbage = 0]
             ELSE t
        ELSE IF t.garbage + 1 > AT_MAX_GARBAGE
             THEN [t EXCEPT !.garbage = 0]
             ELSE [t EXCEPT !.garbage = @ + 1]

\* a faulty variant of AT_Command_ReceiveByte: a terminator on a line
\* shorter than 2 bytes leaves the line in the buffer
ReceiveByte_Accept_KeepShort(cur, byte) ==
    LET t == IF cur.idx > 0 /\ cur.rx_tick > AT_RX_TIMEOUT_MS
             THEN [cur EXCEPT !.buf = <<>>, !.idx = 0, !.garbage = 0,
                              !.rx_tick = 0]
             ELSE cur
    IN  IF IsTerminator(byte)
        THEN IF t.idx >= 2
             THEN [t EXCEPT !.buf = Append(@, 0), !.ready = 1,
                            !.garbage = 0, !.rx_tick = 0, !.task = TRUE]
             ELSE t
        ELSE IF IsPrintable(byte)
        THEN IF t.idx < AT_CMD_MAX_LEN - 1
             THEN [t EXCEPT !.buf = Append(@, byte), !.idx = @ + 1,
                            !.rx_tick = 0, !.garbage = 0]
             ELSE t
        ELSE IF t.garbage + 1 > AT_MAX_GARBAGE
             THEN [t EXCEPT !.buf = <<>>, !.idx = 0, !.garbage = 0]
             ELSE [t EXCEPT !.garbage = @ + 1]

\* the receiver's statics after AT_Command_ReceiveByte(byte)
\* AT_Command_ReceiveByte after "if (at_cmd_ready) return;"
ReceiveByte_Accept(cur, byte) ==
    LET t == IF cur.idx > 0 /\ cur.rx_tick > AT_RX_TIMEOUT_MS
             THEN [cur EXCEPT !.buf = <<>>, !.idx = 0, !.garbage = 0,
                              !.rx_tick = 0]
             ELSE cur
    IN  IF IsTerminator(byte)
        THEN IF t.idx >= 2
             THEN [t EXCEPT !.buf = Append(@, 0), !.ready = 1,
                            !.garbage = 0, !.rx_tick = 0, !.task = TRUE]
             ELSE [t EXCEPT !.buf = <<>>, !.idx = 0]
        ELSE IF IsPrintable(byte)
        THEN IF t.idx < AT_CMD_MAX_LEN - 1
             THEN [t EXCEPT !.buf = Append(@, byte), !.idx = @ + 1,
                            !.rx_tick = 0, !.garbage = 0]
             ELSE t
        ELSE IF t.garbage + 1 > AT_MAX_GARBAGE
             THEN [t EXCEPT !.buf = <<>>, !.idx = 0, !.garbage = 0]
             ELSE [t EXCEPT !.garbage = @ + 1]

\* the receiver's state on entry, after "at_rx_tick++;"
ReceiveByte_Entry ==
    [buf |-> at_line_buf, idx |-> at_line_idx, ready |-> at_cmd_ready,
     garbage |-> at_garbage_count,
     rx_tick |-> (at_rx_tick + 1) % RX_TICK_MOD, task |-> FALSE]

\* a faulty variant of AT_Command_ReceiveByte: bytes are not dropped while
\* a completed line waits to be drained
ReceiveByte_NoReadyCheck(byte) == ReceiveByte_Accept(ReceiveByte_Entry, byte)

ReceiveByte_Result(byte) ==
    IF at_cmd_ready # 0 THEN ReceiveByte_Entry
    ELSE ReceiveByte_Accept(ReceiveByte_Entry, byte)

\* rx_fed when the bytes since the receiver was last empty were not all
\* printable, or were as many as the line buffer's size
RxFedOther == <<0>>

\* rx_long after a byte that took the receiver to the statics r
RxLongAfter(r, byte) ==
    IF at_cmd_ready # 0 THEN 0
    ELSE IF r.ready # 0 THEN rx_long
    ELSE IF at_line_idx < AT_CMD_MAX_LEN - 1 \/ r.idx < AT_CMD_MAX_LEN - 1
    THEN 0
    ELSE IF IsPrintable(byte) /\ rx_long < MaxExcess THEN rx_long + 1
    ELSE rx_long

\* the serial interrupt delivers one byte in Command mode
AT_Command_ReceiveByte(byte) ==
    /\ current_mode = MODE_COMMAND
    /\ LET r == ReceiveByte_Result(byte)
       IN  /\ at_line_buf' = r.buf
           /\ at_line_idx' = r.idx
           /\ at_cmd_ready' = r.ready
           /\ at_garbage_count' = r.garbage
           /\ at_rx_tick' = r.rx_tick
           /\ task_pending' = (task_pending \/ r.task)
           /\ rx_raised' = IF at_cmd_ready = 0 /\ r.ready # 0 THEN r.buf
                           ELSE rx_raised
           /\ rx_long' = RxLongAfter(r, byte)
           /\ rx_fed' = IF r.idx = 0 /\ r.ready = 0 THEN <<>>
                        ELSE IF /\ rx_fed # RxFedOther
                                /\ byte \in ASCII_SPACE..ASCII_TILDE
                                /\ Len(rx_fed) + 1 < AT_CMD_MAX_LEN
                        THEN Append(rx_fed, byte)
                        ELSE RxFedOther
    /\ last_op' = [Op("rx") EXCEPT !.byte = byte]
    /\ UNCHANGED <<at_cmd_buf, proc_pc, modeVars, tick, devices,
                   uart_out, calls, ret, histVars, fnVars, wireVars, powerVars>>

\* AT_Command_ProcessReady, "if (!at_cmd_ready) return;"
ProcessReady_Check ==
    /\ proc_pc = "idle"
    /\ task_pending' = FALSE
    /\ proc_pc' = IF at_cmd_ready # 0 THEN "copy" ELSE "idle"
    /\ rx_long' = RxLongKept
    /\ last_op' = Op("check")
    /\ UNCHANGED <<at_line_buf, at_line_idx, at_cmd_ready, at_garbage_count,
                   at_rx_tick, at_cmd_buf, rx_fed, rx_raised,
                   modeVars, tick, devices, uart_out, calls, ret, histVars,
                   fnVars, wireVars, powerVars>>

\* memcpy(at_cmd_buf, at_line_buf, at_line_idx + 1)
CopyLine(buf, idx) == SubSeq(buf, 1, idx + 1)

\* AT_Command_ProcessReady, the critical section
\* the drain with the ready flag left set
ProcessReady_Copy_KeepsReady ==
    /\ proc_pc = "copy"
    /\ at_cmd_buf' = CopyLine(at_line_buf, at_line_idx)
    /\ at_line_idx' = 0
    /\ at_line_buf' = <<>>
    /\ at_cmd_ready' = at_cmd_ready
    /\ proc_pc' = "run"
    /\ rx_fed' = <<>>
    /\ rx_long' = 0
    /\ last_op' = Op("copy")
    /\ UNCHANGED <<at_garbage_count, at_rx_tick, task_pending, rx_raised,
                   modeVars, tick, devices, uart_out, calls, ret, histVars,
                   fnVars, wireVars, powerVars>>

ProcessReady_Copy ==
    /\ proc_pc = "copy"
    /\ at_cmd_buf' = CopyLine(at_line_buf, at_line_idx)
    /\ at_line_idx' = 0
    /\ at_line_buf' = <<>>
    /\ at_cmd_ready' = 0
    /\ proc_pc' = "run"
    /\ rx_fed' = <<>>
    /\ rx_long' = 0
    /\ last_op' = Op("copy")
    /\ UNCHANGED <<at_garbage_count, at_rx_tick, task_pending, rx_raised,
                   modeVars, tick, devices, uart_out, calls, ret, histVars,
                   fnVars, wireVars, powerVars>>

RECURSIVE CStr(_)
\* the C string a buffer holds: its bytes up to the first NUL
CStr(buf) ==
    IF buf = <<>> \/ Head(buf) = 0 THEN <<>>
    ELSE <<Head(buf)>> \o CStr(Tail(buf))

\* AT_Command_ProcessReady, "AT_Command_Process(at_cmd_buf);"
ProcessReady_Run ==
    /\ proc_pc = "run"
    /\ \E oks \in OkSeqs :
         LET s == AT_Command_Process(Sys(oks), CStr(at_cmd_buf))
         IN  Commit(s) /\ PowerCommit(PowerAfter(s.calls))
    /\ proc_pc' = "idle"
    /\ rx_long' = RxLongKept
    /\ last_op' = [Op("run") EXCEPT !.line = CStr(at_cmd_buf)]
    /\ UNCHANGED <<at_line_buf, at_line_idx, at_cmd_ready, at_garbage_count,
                   at_rx_tick, at_cmd_buf, task_pending, rx_fed, rx_raised,
                   tick, histVars, fnVars, wireVars>>

RxNext ==
    \/ \E byte \in RxBytes : AT_Command_ReceiveByte(byte)
    \/ ProcessReady_Check
    \/ ProcessReady_Copy
    \/ ProcessReady_Run

RxSpecInit ==
    /\ RxInit /\ ModeInit /\ ObsInit /\ HistInit /\ FnInit
    /\ tick = 0
    /\ devices = <<>>

\* the line receiver fed any bytes, with the deferred task run at any moment
SpecRx == RxSpecInit /\ [][RxNext]_vars

(***************************************************************************)
(* Properties of the line receiver, checked under SpecRx                   *)
(***************************************************************************)
\* the step is AT_Command_ProcessReady's critical section
IsDrain == proc_pc = "copy" /\ proc_pc' = "run"

\* C1: the ready flag goes from clear to set only on a CR or LF byte when the
\* line buffer holds at least 2 bytes; it is cleared by the drain only, so it
\* is set at most once between two drains; the line the drain copies out is
\* NUL-terminated at its length, which is at least 2.
C1_ReadyOnlyOnTerminatedLine ==
    [][ /\ (at_cmd_ready = 0 /\ at_cmd_ready' # 0)
            => /\ last_op'.op = "rx"
               /\ last_op'.byte \in {ASCII_CR, ASCII_LF}
               /\ at_line_idx >= 2
               /\ at_line_idx' = at_line_idx
        /\ (at_cmd_ready # 0 /\ at_cmd_ready' = 0) => IsDrain
        /\ IsDrain
            => LET n == Len(at_cmd_buf') - 1
               IN  /\ n >= 2
                   /\ at_cmd_buf'[n + 1] = 0
                   /\ \A k \in 1..n : at_cmd_buf'[k] # 0 ]_vars

\* the case of C1: a line of the minimum length has been drained
C1_Witness ==
    /\ last_op.op = "copy"
    /\ Len(at_cmd_buf) = 3
    /\ CStr(at_cmd_buf) = <<ASCII_TILDE, ASCII_SPACE>>
    /\ at_cmd_ready = 0

\* C2: while the ready flag is set, no step but the drain changes the line
\* buffer or the fill cursor, whatever bytes arrive, and the line the drain
\* copies out is the line that was in the buffer when the flag was raised.
C2_NoWriteWhileReady ==
    [][ /\ (at_cmd_ready # 0 /\ ~IsDrain)
            => UNCHANGED <<at_line_buf, at_line_idx, at_cmd_ready>>
        /\ IsDrain => at_cmd_buf' = rx_raised ]_vars

\* the case of C2: a line has been drained after three or more bytes had
\* arrived while it waited
C2_Witness ==
    /\ last_op.op = "copy"
    /\ at_rx_tick >= 3
    /\ at_cmd_buf = rx_raised
    /\ Len(at_cmd_buf) = AT_CMD_MAX_LEN

\* C10: after init or a drain, N printable bytes with N less than the line
\* buffer's size leave the buffer holding those bytes in order, the fill
\* cursor at N and the ready flag clear.
C10_PrintableBytesBuffered ==
    rx_fed # RxFedOther
        => /\ at_line_buf = rx_fed
           /\ at_line_idx = Len(rx_fed)
           /\ at_cmd_ready = 0

\* the case of C10: after a drain, as many printable bytes as fit
C10_Witness ==
    /\ last_op.op = "rx"
    /\ Len(rx_fed) = AT_CMD_MAX_LEN - 1
    /\ ASCII_TILDE \in {rx_fed[k] : k \in DOMAIN rx_fed}
    /\ at_cmd_buf # <<>>

\* the next step is a receive step that finds no line pending
AcceptingStep == at_cmd_ready = 0 /\ last_op'.op = "rx"

\* a byte that is neither printable nor a terminator
IsGarbage(byte) == ~IsPrintable(byte) /\ ~IsTerminator(byte)

\* C35: the garbage counter never exceeds AT_MAX_GARBAGE after a call; a
\* printable byte that finds room in the line buffer is stored and zeroes
\* the counter, and so does every completed line; a garbage byte adds one
\* to the counter (counting from 0 again where the receive timeout has just
\* discarded the line); and the garbage byte that meets the counter at
\* AT_MAX_GARBAGE discards the line in progress, the fill cursor going back
\* to 0, without raising the ready flag, and leaves the counter at 0 (at 1
\* where the timeout discarded the line first).
C35_GarbageCounter ==
    [][ /\ at_garbage_count' <= AT_MAX_GARBAGE
        /\ AcceptingStep =>
              /\ (IsPrintable(last_op'.byte)
                     /\ at_line_idx < AT_CMD_MAX_LEN - 1)
                   => /\ at_garbage_count' = 0
                      /\ at_line_idx' >= 1
                      /\ at_line_buf'[at_line_idx'] = last_op'.byte
              /\ at_cmd_ready' # 0 => at_garbage_count' = 0
              /\ IsGarbage(last_op'.byte)
                   => /\ at_cmd_ready' = 0
                      /\ IF at_garbage_count = AT_MAX_GARBAGE
                         THEN /\ at_line_idx' = 0
                              /\ at_line_buf' = <<>>
                              /\ at_garbage_count' \in {0, 1}
                         ELSE at_garbage_count' \in {at_garbage_count + 1, 1}
      ]_vars

\* the garbage byte after AT_MAX_GARBAGE others has just discarded a line
\* that followed a completed one
C35_Witness ==
    /\ last_op.op = "rx"
    /\ IsGarbage(last_op.byte)
    /\ at_garbage_count = 0
    /\ at_line_idx = 0
    /\ at_cmd_ready = 0
    /\ at_cmd_buf # <<>>

\* C36: while a line is pending AT_Command_ReceiveByte ignores the byte
\* completely: line buffer, fill cursor, ready flag, garbage counter and
\* receive-timeout counter are left unchanged.
C36_PendingByteIgnored ==
    [][ (at_cmd_ready # 0 /\ last_op'.op = "rx")
          => UNCHANGED <<at_line_buf, at_line_idx, at_cmd_ready,
                         at_garbage_count, at_rx_tick>> ]_vars

\* a byte has arrived while a line was pending
C36_Witness ==
    /\ last_op.op = "rx"
    /\ at_cmd_ready # 0
    /\ rx_raised = at_line_buf
    /\ at_rx_tick > 0

\* C37: no input locks up the line receiver.  A terminator leaves the
\* receiver empty (fill cursor 0) or with a line pending, and a pending line
\* has its drain signalled or under way; the drain leaves the receiver
\* empty; and from the empty receiver 2..AT_CMD_MAX_LEN-1 printable bytes
\* and a terminator raise the ready flag on exactly those bytes, whatever
\* the garbage and timeout counters are.
C37_ReceiverRecovers ==
    [][ /\ (last_op'.op = "rx" /\ IsTerminator(last_op'.byte))
             => \/ at_cmd_ready' # 0
                \/ at_line_idx' = 0 /\ at_line_buf' = <<>>
        /\ at_cmd_ready' # 0 => task_pending' \/ proc_pc' = "copy"
        /\ last_op'.op = "copy"
             => at_line_idx' = 0 /\ at_line_buf' = <<>> /\ at_cmd_ready' = 0
        /\ ( /\ last_op'.op = "rx" /\ IsTerminator(last_op'.byte)
             /\ rx_fed # RxFedOther /\ Len(rx_fed) >= 2 )
             => /\ at_cmd_ready = 0 /\ at_cmd_ready' # 0
                /\ at_line_buf' = rx_fed \o <<0>>
                /\ rx_raised' = rx_fed \o <<0>>
                /\ at_line_idx' = Len(rx_fed)
      ]_vars

\* a line of AT_CMD_MAX_LEN-1 bytes has been handed off while the line
\* before it is still being dispatched
C37_Witness ==
    /\ last_op.op = "rx"
    /\ IsTerminator(last_op.byte)
    /\ at_cmd_ready # 0
    /\ Len(rx_raised) = AT_CMD_MAX_LEN
    /\ proc_pc = "run"
    /\ at_cmd_buf # rx_raised

\* the line buffer is full, no line is pending, every byte since the last
\* one stored was printable, and the next step is a receive step
LongLineStep ==
    /\ at_cmd_ready = 0
    /\ at_line_idx = AT_CMD_MAX_LEN - 1
    /\ at_garbage_count = 0
    /\ last_op'.op = "rx"

\* the full line is handed off as it was stored
LongLineHandedOff ==
    /\ at_cmd_ready' # 0
    /\ at_line_buf' = at_line_buf \o <<0>>
    /\ at_line_idx' = AT_CMD_MAX_LEN - 1
    /\ rx_raised' = at_line_buf \o <<0>>

\* C33, as worded: a line longer than the line buffer is truncated, not
\* restarted.  From the empty receiver, AT_CMD_MAX_LEN-1 printable bytes
\* followed by any number of further printable bytes and a terminator hand
\* off exactly the first AT_CMD_MAX_LEN-1 bytes, and each excess byte leaves
\* the line buffer, the fill cursor, the ready flag and the garbage counter
\* as they were.
C33_LongLineTruncated ==
    [][ LongLineStep =>
          /\ IsPrintable(last_op'.byte)
               => UNCHANGED <<at_line_buf, at_line_idx, at_cmd_ready,
                              at_garbage_count>>
          /\ (IsTerminator(last_op'.byte) /\ rx_long >= 1)
               => LongLineHandedOff ]_vars

\* C33, with the reach of the receive timeout: the same, for excess bytes
\* up to the AT_RX_TIMEOUT_MS-th and for a terminator that follows at most
\* AT_RX_TIMEOUT_MS-1 excess bytes.  (at_rx_tick advances with every byte
\* and only a stored byte zeroes it.)
C33_LongLineTruncatedWithinTimeout ==
    [][ LongLineStep =>
          /\ (IsPrintable(last_op'.byte)
                 /\ rx_long + 1 <= AT_RX_TIMEOUT_MS)
               => UNCHANGED <<at_line_buf, at_line_idx, at_cmd_ready,
                              at_garbage_count>>
          /\ (IsTerminator(last_op'.byte) /\ rx_long >= 1
                 /\ rx_long + 1 <= AT_RX_TIMEOUT_MS)
               => LongLineHandedOff ]_vars

\* a line with AT_RX_TIMEOUT_MS-1 excess bytes has been handed off
C33_Witness ==
    /\ last_op.op = "rx"
    /\ IsTerminator(last_op.byte)
    /\ at_cmd_ready # 0
    /\ rx_long = AT_RX_TIMEOUT_MS - 1
    /\ Len(rx_raised) = AT_CMD_MAX_LEN
    /\ at_line_buf = rx_raised

\* the sequencer runs the deferred task because UTIL_SEQ_SetTask signalled it
ProcessReady_Signalled == task_pending /\ ProcessReady_Check

\* a terminator and two printable characters
LiveBytes == {ASCII_CR, ASCII_SPACE, ASCII_TILDE}

RxLiveNext ==
    \/ \E byte \in LiveBytes : AT_Command_ReceiveByte(byte)
    \/ ProcessReady_Signalled
    \/ ProcessReady_Copy
    \/ ProcessReady_Run

\* the line receiver with the deferred task run only when it is signalled,
\* and then run to its end
SpecRxLive ==
    /\ RxSpecInit
    /\ [][RxLiveNext]_vars
    /\ WF_vars(ProcessReady_Signalled)
    /\ WF_vars(ProcessReady_Copy)
    /\ WF_vars(ProcessReady_Run)

\* C22: a line that raised the ready flag is copied out and passed to
\* AT_Command_Process, once and in the order of completion: the flag is
\* cleared by the drain only, which copies the line that raised it; the copy
\* changes in the drain only and each drain is followed by one dispatch of
\* the copy before the next drain; a byte arriving while a line is pending
\* changes neither the line nor the signal (the line it would complete is
\* refused, not queued); and, the signalled task getting to run, every
\* pending line is drained and every drained line dispatched, also when it
\* completed while the previous line was still being dispatched.
C22_AcceptedLineProcessedOnce ==
    /\ [][ /\ (at_cmd_ready # 0 /\ at_cmd_ready' = 0) => IsDrain
           /\ IsDrain => /\ at_cmd_ready # 0
                         /\ at_cmd_ready' = 0
                         /\ at_cmd_buf' = rx_raised
           /\ at_cmd_buf' # at_cmd_buf => IsDrain
           /\ (proc_pc = "run" /\ proc_pc' # "run")
                  => /\ last_op'.op = "run"
                     /\ last_op'.line = CStr(at_cmd_buf)
           /\ last_op'.op = "run" => proc_pc = "run" /\ proc_pc' = "idle"
           /\ (at_cmd_ready # 0 /\ last_op'.op = "rx")
                  => UNCHANGED <<at_line_buf, at_line_idx, at_cmd_ready,
                                 rx_raised, task_pending, at_cmd_buf>>
         ]_vars
    /\ (at_cmd_ready # 0) ~> (last_op.op = "copy")
    /\ (proc_pc = "run") ~> (last_op.op = "run")

\* the case of C22: a line completed while the previous one was being
\* dispatched, and it is now being dispatched itself
C22_Witness ==
    /\ last_op.op = "run"
    /\ last_op.line = <<ASCII_TILDE, ASCII_TILDE>>
    /\ at_cmd_ready # 0
    /\ rx_raised = <<ASCII_SPACE, ASCII_SPACE, ASCII_TILDE, 0>>
    /\ task_pending

(***************************************************************************)
(* The device manager and the BLE stack's events, as far as the handlers   *)
(* read them: the records are created by discovery, in index order, and    *)
(* the stack sets and clears is_connected.                                 *)
(***************************************************************************)
\* the history describes the Data-mode session that is open or has just
\* ended: it starts afresh when Data mode is entered and is dropped by the
\* first step taken in Command mode
HistReset ==
    /\ idle' = 0
    /\ rx_log' = <<>>
    /\ gatt_log' = <<>>
    /\ abandoned' = FALSE
    /\ write_failed' = FALSE

\* the record the device manager creates for the idx-th discovered device
DeviceRecord(idx) ==
    [mac_addr |-> <<170, 187, 204, 221, 238, 240 + idx>>,
     rssi |-> -60 - idx,
     conn_handle |-> 2049 + idx,
     is_connected |-> FALSE,
     name |-> <<>>]

BLE_DeviceDiscovered ==
    /\ Len(devices) < MaxDevices
    /\ devices' = Append(devices, DeviceRecord(Len(devices)))
    /\ last_op' = Op("discovered")
    /\ uart_out' = <<>> /\ calls' = <<>>
    /\ IF current_mode = MODE_COMMAND THEN HistReset ELSE UNCHANGED histVars
    /\ UNCHANGED <<rxVars, modeVars, tick, ret, fnVars, wireVars, powerVars>>

BLE_LinkChanged(idx, up) ==
    /\ HasDevice(devices, idx)
    /\ Device(devices, idx).is_connected # up
    /\ devices' = [devices EXCEPT ![idx + 1].is_connected = up]
    /\ last_op' = [Op("link") EXCEPT !.idx = idx]
    /\ uart_out' = <<>> /\ calls' = <<>>
    /\ IF current_mode = MODE_COMMAND THEN HistReset ELSE UNCHANGED histVars
    /\ UNCHANGED <<rxVars, modeVars, tick, ret, fnVars, wireVars, powerVars>>

(***************************************************************************)
(* The mode controller's specification: mode commands, Data-mode bytes     *)
(* with the time between them, the escape poll, and the target's link.     *)
(***************************************************************************)
\* "AT+DATAMODE=0,5"
LINE_DATAMODE_0 == <<65, 84, 43, 68, 65, 84, 65, 77, 79, 68, 69, 61, 48, 44, 53>>
\* "AT+CMDMODE"
LINE_CMDMODE == <<65, 84, 43, 67, 77, 68, 77, 79, 68, 69>>

ModeLines == {LINE_DATAMODE_0, LINE_CMDMODE}

\* the bytes the serial interrupt delivers in Data mode: '+' and 'x'
DataBytes == {43, 120}

RECURSIVE GattBytes(_)
\* the payload bytes handed to BLE_GATT_WriteCharacteristic by these calls
GattBytes(cs) ==
    IF cs = <<>> THEN <<>>
    ELSE (IF Head(cs).fn = "BLE_GATT_WriteCharacteristic"
          THEN Head(cs).args[3] ELSE <<>>) \o GattBytes(Tail(cs))

\* the tags of the lines written to the serial port
Tags(out) == [i \in DOMAIN out |-> out[i].tag]

\* history: the last three Data-mode bytes are '+' and a guard silence
\* preceded the first of them
\* a GATT write among the calls of a step has returned an error
WriteFailed(cs) ==
    \E i \in DOMAIN cs : cs[i].fn = "BLE_GATT_WriteCharacteristic" /\ ~cs[i].ok

PendingRun ==
    /\ Len(rx_log) >= ESCAPE_SEQ_LENGTH
    /\ \A i \in (Len(rx_log) - ESCAPE_SEQ_LENGTH + 1)..Len(rx_log) :
           rx_log[i].byte = ESCAPE_SEQ_CHAR
    /\ rx_log[Len(rx_log) - ESCAPE_SEQ_LENGTH + 1].guarded

\* history: guard silence, '+++', guard silence
EscapeComplete == PendingRun /\ idle >= ESCAPE_GUARD_TIME_MS

\* the history variables after a step of the handlers that ended in s
HistAfter(s) ==
    IF \/ current_mode = MODE_COMMAND
       \/ \E i \in DOMAIN s.uart : s.uart[i].tag = "+DATAMODE"
    THEN HistReset
    ELSE /\ gatt_log' = gatt_log \o GattBytes(s.calls)
         /\ write_failed' = (write_failed \/ WriteFailed(s.calls))
         /\ UNCHANGED <<idle, rx_log, abandoned>>

\* AT_Command_Process on a command line, the collaborators answering as one
\* of outcomes
ProcessLine(line, outcomes) ==
    /\ \E oks \in outcomes :
         LET s == AT_Command_Process(Sys(oks), line)
         IN  Commit(s) /\ HistAfter(s) /\ PowerCommit(PowerAfter(s.calls))
    /\ last_op' = [Op("line") EXCEPT !.line = line]
    /\ UNCHANGED <<rxVars, tick, fnVars, wireVars>>

\* AT_Command_Process on a mode command
ModeLine(line) == ProcessLine(line, OkOne)

\* the serial interrupt delivers one byte in Data mode
DataByte(byte) ==
    /\ current_mode = MODE_DATA
    /\ Len(rx_log) < MaxLog
    /\ \E oks \in OkOne :
         LET s == Module_Mode_ProcessDataByte(Sys(oks), byte)
         IN  /\ Commit(s)
             /\ gatt_log' = gatt_log \o GattBytes(s.calls)
             /\ write_failed' = (write_failed \/ WriteFailed(s.calls))
    /\ rx_log' = Append(rx_log,
                        [byte |-> byte,
                         guarded |-> /\ byte = ESCAPE_SEQ_CHAR
                                     /\ idle >= ESCAPE_GUARD_TIME_MS])
    /\ abandoned' = (abandoned \/ (PendingRun /\ idle < ESCAPE_GUARD_TIME_MS))
    /\ idle' = 0
    /\ last_op' = [Op("byte") EXCEPT !.byte = byte,
                       !.pending = PendingRun /\ idle < ESCAPE_GUARD_TIME_MS]
    /\ UNCHANGED <<rxVars, tick, fnVars, wireVars, powerVars>>

\* one millisecond passes
Tick ==
    /\ current_mode = MODE_DATA
    /\ idle < MaxSilence
    /\ tick' = (tick + 1) % TICK_MOD
    /\ idle' = idle + 1
    /\ last_op' = Op("tick")
    /\ uart_out' = <<>> /\ calls' = <<>> /\ ret' = 0
    /\ UNCHANGED <<rxVars, modeVars, devices, rx_log, gatt_log, abandoned,
                   write_failed,
                   fnVars, wireVars, powerVars>>

\* the main loop's poll: a confirmed escape makes it enter Command mode
EscapePoll(s) ==
    LET s1 == Module_Mode_IsEscapeDetected(s)
    IN  IF s1.ret = 1 THEN [Module_Mode_EnterCommand(s1) EXCEPT !.ret = 1]
        ELSE s1

PollEscape ==
    /\ current_mode = MODE_DATA
    /\ \E oks \in OkOne :
         LET s == EscapePoll(Sys(oks))
         IN  /\ Commit(s)
             /\ gatt_log' = gatt_log \o GattBytes(s.calls)
             /\ write_failed' = (write_failed \/ WriteFailed(s.calls))
    /\ last_op' = [Op("poll") EXCEPT !.complete = EscapeComplete,
                                     !.abandoned = abandoned]
    /\ UNCHANGED <<rxVars, tick, idle, rx_log, abandoned, fnVars, wireVars,
                   powerVars>>

\* the target's link comes up or goes down between two Data-mode sessions
LinkChangedInCommand ==
    /\ current_mode = MODE_COMMAND
    /\ \E up \in BOOLEAN : BLE_LinkChanged(0, up)

DataNext ==
    \/ \E line \in ModeLines : ModeLine(line)
    \/ \E byte \in DataBytes : DataByte(byte)
    \/ Tick
    \/ PollEscape
    \/ LinkChangedInCommand

DataInit ==
    /\ RxInit /\ ModeInit /\ ObsInit /\ HistInit /\ FnInit
    /\ tick = 0
    /\ devices = <<DeviceRecord(0)>>

SpecData == DataInit /\ [][DataNext]_vars

(***************************************************************************)
(* The command plane's specification: whole command lines given to the     *)
(* dispatcher, devices discovered, links coming up and going down, and     *)
(* payload bytes in Data mode.                                             *)
(***************************************************************************)
RECURSIVE Decimal(_)
\* the decimal digits of n
Decimal(n) ==
    IF n < 10 THEN <<48 + n>>
    ELSE Decimal(n \div 10) \o <<48 + (n % 10)>>

\* "AT+DATAMODE=<idx>,<handle>"
DataModeLine(idx, handle) ==
    STR_AT_DATAMODE \o Decimal(idx) \o <<44>> \o Decimal(handle)

\* the indices a command may name: those of the devices, and one more
DevIndices == 0..MaxDevices

\* "AA:BB:CC:DD:EE:F<idx>", the address of DeviceRecord(idx) as it is typed
MacText(idx) ==
    <<65, 65, 58, 66, 66, 58, 67, 67, 58, 68, 68, 58, 69, 69, 58, 70, 48 + idx>>

\* the same in lower case
MacTextLower(idx) ==
    <<97, 97, 58, 98, 98, 58, 99, 99, 58, 100, 100, 58, 101, 101, 58, 102,
      48 + idx>>

\* the positions of the separators in "XX:XX:XX:XX:XX:XX"
MacSeparatorAt == {3, 6, 9, 12, 15}

\* arguments of AT+CONNECT that deviate from the form in one place: another
\* character for a separator ('-', '0'), another character for a digit
\* ('G', '/', ':'), a shorter string, trailing characters
MacDeviations ==
    LET m == MacText(0)
    IN  {[m EXCEPT ![k] = c] : k \in MacSeparatorAt, c \in {45, 48}}
        \cup {[m EXCEPT ![k] = c] :
                 k \in (1..17) \ MacSeparatorAt, c \in {71, 47, 58}}
        \cup {SubSeq(m, 1, n) : n \in 0..16}
        \cup {m \o tail : tail \in {<<48>>, <<58, 48, 48>>, <<120>>, <<58>>}}

ConnectArgs ==
    {MacText(i) : i \in DevIndices} \cup {MacTextLower(0)} \cup MacDeviations

\* "at+list"
LINE_AT_LIST_LOWER == <<97, 116, 43, 108, 105, 115, 116>>
\* "At+List"
LINE_AT_LIST_MIXED == <<65, 116, 43, 76, 105, 115, 116>>
\* "at"
LINE_AT_LOWER == <<97, 116>>
\* "AT+SCAN=2000"
LINE_AT_SCAN_2000 == <<65, 84, 43, 83, 67, 65, 78, 61, 50, 48, 48, 48>>
\* "AT+FOO"
LINE_AT_UNKNOWN == <<65, 84, 43, 70, 79, 79>>

\* the command lines given to the dispatcher
TestLines ==
    {STR_AT, LINE_AT_LOWER, STR_AT_LIST, LINE_AT_LIST_LOWER, LINE_AT_LIST_MIXED,
     STR_AT_CMDMODE, STR_AT_STATUS, STR_AT_CLEAR, LINE_AT_SCAN_2000,
     LINE_AT_UNKNOWN}
    \cup {DataModeLine(i, h) : i \in DevIndices, h \in {0, 5}}
    \cup {STR_AT_CONNECT \o a : a \in ConnectArgs}

\* a payload byte in Data mode
PayloadByte == DataByte(120)

Next ==
    \/ \E line \in TestLines : ProcessLine(line, OkOne)
    \/ BLE_DeviceDiscovered
    \/ \E idx \in 0..(MaxDevices - 1), up \in BOOLEAN : BLE_LinkChanged(idx, up)
    \/ PayloadByte

Init ==
    /\ RxInit /\ ModeInit /\ ObsInit /\ HistInit /\ FnInit
    /\ tick = 0
    /\ devices = <<>>

Spec == Init /\ [][Next]_vars

ListAnswerTags(n) == <<"+LIST">> \o [k \in 1..n |-> "+DEV"] \o <<"OK">>

\* C7: a command line in lower case is dispatched like its upper-case form:
\* "at+list" (in any case) with N known devices is answered with +LIST:N,
\* N +DEV lines and OK.
C7_LowerCaseDispatched ==
    ( /\ last_op.op = "line"
      /\ last_op.line \in {STR_AT_LIST, LINE_AT_LIST_LOWER, LINE_AT_LIST_MIXED} )
        => /\ Tags(uart_out) = ListAnswerTags(Len(devices))
           /\ uart_out[1].args = <<Len(devices)>>

\* the case of C7: "at+list" has been given with two known devices
C7_Witness ==
    /\ last_op.op = "line"
    /\ last_op.line = LINE_AT_LIST_LOWER
    /\ Len(devices) = 2

\* the hexadecimal digits
HexDigits == (48..57) \cup (65..70) \cup (97..102)

\* text is XX:XX:XX:XX:XX:XX, 17 characters, every X a hexadecimal digit
WellFormedMAC(text) ==
    /\ Len(text) = 17
    /\ \A k \in 1..17 :
           IF k \in MacSeparatorAt THEN text[k] = 58 ELSE text[k] \in HexDigits

\* C9: an argument of AT+CONNECT that is not exactly XX:XX:XX:XX:XX:XX (a
\* wrong separator, a non-hex digit, a shorter string, trailing characters)
\* is answered with ERROR, without a device lookup or a connection attempt.
C9_MalformedMACRejected ==
    ( /\ last_op.op = "line"
      /\ HasPrefix(last_op.line, STR_AT_CONNECT)
      /\ ~WellFormedMAC(From(last_op.line, Len(STR_AT_CONNECT))) )
        => /\ Tags(uart_out) = <<"ERROR">>
           /\ calls = <<>>

\* the case of C9: AT+CONNECT with characters after a well-formed address
C9_Witness ==
    /\ last_op.op = "line"
    /\ last_op.line = STR_AT_CONNECT \o MacText(0) \o <<58, 48, 48>>
    /\ Len(devices) > 0

(***************************************************************************)
(* Properties of the escape sequence, checked under SpecData               *)
(***************************************************************************)
\* C3: in Data mode, a guard silence, exactly three '+' and a guard silence
\* make the poll's Module_Mode_IsEscapeDetected return 1, and the
\* Module_Mode_EnterCommand that follows leaves the mode at Command.
C3_EscapeConfirmed ==
    (last_op.op = "poll" /\ last_op.mode = MODE_DATA /\ last_op.complete)
        => (ret = 1 /\ current_mode = MODE_COMMAND)

\* the case of C3: the session's bytes were '+++' after a guard silence, the
\* poll came a guard silence later and the module is in Command mode
C3_Witness ==
    /\ last_op.op = "poll"
    /\ last_op.complete
    /\ Len(rx_log) = ESCAPE_SEQ_LENGTH
    /\ rx_log[1].guarded
    /\ idle >= ESCAPE_GUARD_TIME_MS
    /\ ret = 1
    /\ current_mode = MODE_COMMAND
    /\ Tags(uart_out) = <<"+CMDMODE">>

\* C4: once a byte has followed '+++' before the trailing guard time has
\* elapsed, the poll does not report an escape, however long the silence,
\* until a new complete escape sequence has been received.
C4_AbandonedRunNeverEscapes ==
    (last_op.op = "poll" /\ last_op.abandoned /\ ~last_op.complete)
        => (ret # 1 /\ current_mode = MODE_DATA)

\* the case of C4: a poll after an abandoned run and a guard silence
C4_Witness ==
    /\ last_op.op = "poll"
    /\ last_op.abandoned
    /\ ~last_op.complete
    /\ idle >= ESCAPE_GUARD_TIME_MS

\* the payload of the session so far: what was handed to GATT writes, then
\* what is still in the transmit buffer
Payload == gatt_log \o SubSeq(data_tx_buffer, 1, data_tx_len)

\* C5: when a byte follows '+++' (after a leading guard silence) before the
\* trailing guard time has elapsed, the payload ends with the three '+' and
\* then that byte.
C5_EscapeRunDeliveredOnce ==
    (last_op.op = "byte" /\ last_op.pending)
        => /\ Len(Payload) >= ESCAPE_SEQ_LENGTH + 1
           /\ SubSeq(Payload, Len(Payload) - ESCAPE_SEQ_LENGTH, Len(Payload))
                  = <<ESCAPE_SEQ_CHAR, ESCAPE_SEQ_CHAR, ESCAPE_SEQ_CHAR,
                      last_op.byte>>

\* the case of C5: 'x' has just followed a guarded '+++' without a silence
C5_Witness ==
    /\ last_op.op = "byte"
    /\ last_op.pending
    /\ last_op.byte = 120
    /\ Len(rx_log) = ESCAPE_SEQ_LENGTH + 1

\* the number of '+' among the bytes of a sequence
EscapeChars(bytes) ==
    Cardinality({i \in DOMAIN bytes : bytes[i] = ESCAPE_SEQ_CHAR})

\* the bytes the session has received
Received == [i \in DOMAIN rx_log |-> rx_log[i].byte]

\* C24: when the poll confirms an escape (guard silence, '+++', guard
\* silence), none of its three '+' has been appended to the transmit buffer
\* or handed to a GATT write: the payload holds at least three '+' fewer than
\* the session received.
C24_ConfirmedEscapeWithheld ==
    (last_op.op = "poll" /\ last_op.mode = MODE_DATA /\ last_op.complete
       /\ ret = 1)
        => EscapeChars(Payload) + ESCAPE_SEQ_LENGTH <= EscapeChars(Received)

\* the case of C24: a session of nothing but a confirmed escape, of which
\* the peer was sent a part
C24_Witness ==
    /\ last_op.op = "poll"
    /\ last_op.mode = MODE_DATA
    /\ last_op.complete
    /\ ret = 1
    /\ Received = <<ESCAPE_SEQ_CHAR, ESCAPE_SEQ_CHAR, ESCAPE_SEQ_CHAR>>
    /\ gatt_log # <<>>

\* the session's input holds a run of one or two '+' that began after a guard
\* silence and was ended by another byte, and no three '+' in a row
PartialRunsOnly ==
    /\ \E i \in DOMAIN rx_log :
          /\ rx_log[i].guarded
          /\ \E j \in (i + 1)..Len(rx_log) :
                /\ j <= i + ESCAPE_SEQ_LENGTH - 1
                /\ rx_log[j].byte # ESCAPE_SEQ_CHAR
                /\ \A k \in i..(j - 1) : rx_log[k].byte = ESCAPE_SEQ_CHAR
    /\ \A i \in 1..(Len(rx_log) - ESCAPE_SEQ_LENGTH + 1) :
          \E k \in i..(i + ESCAPE_SEQ_LENGTH - 1) :
              rx_log[k].byte # ESCAPE_SEQ_CHAR

\* C25: Data mode is transparent for partial runs: when the input holds runs
\* of one or two '+' ended by another byte and every GATT write has
\* succeeded, the bytes handed to GATT writes followed by the transmit buffer
\* are the bytes received, nothing duplicated, dropped or reordered.
C25_PartialRunTransparent ==
    (current_mode = MODE_DATA /\ last_op.op = "byte"
       /\ last_op.byte # ESCAPE_SEQ_CHAR /\ PartialRunsOnly
       /\ ~write_failed)
        => Payload = Received

\* the case of C25: 'x' has ended a run of one '+' that followed a guard
\* silence, every write having succeeded
C25_Witness ==
    /\ current_mode = MODE_DATA
    /\ last_op.op = "byte"
    /\ ~write_failed
    /\ PartialRunsOnly
    /\ Len(rx_log) = 2
    /\ rx_log[1].guarded
    /\ Received = <<ESCAPE_SEQ_CHAR, 120>>

\* a run is in progress: the '+' bytes the input ends with include one that
\* followed a guard silence
RunInProgress ==
    \E i \in DOMAIN rx_log :
        /\ rx_log[i].guarded
        /\ \A k \in i..Len(rx_log) : rx_log[k].byte = ESCAPE_SEQ_CHAR

\* a '+' that followed a guard silence has begun three '+' in a row
GuardedRunSeen ==
    \E i \in 1..(Len(rx_log) - ESCAPE_SEQ_LENGTH + 1) :
        /\ rx_log[i].guarded
        /\ \A k \in i..(i + ESCAPE_SEQ_LENGTH - 1) :
               rx_log[k].byte = ESCAPE_SEQ_CHAR

LinesTagged(out, tag) == Cardinality({i \in DOMAIN out : out[i].tag = tag})

\* the GATT writes among the calls of a step
IsGattWrite(c) == c.fn = "BLE_GATT_WriteCharacteristic"
GattWrites(cs) == SelectSeq(cs, IsGattWrite)

\* the write that carries the transmit buffer to the target
BufferWriteArgs ==
    <<Device(devices, target_dev_idx).conn_handle, target_char_handle,
      SubSeq(data_tx_buffer, 1, data_tx_len)>>

\* C28: a step that leaves Data mode with bytes in the transmit buffer and
\* the target connected issues exactly one GATT write, of the buffered bytes
\* in order to the target handle, writes +CMDMODE once and leaves the buffer
\* empty and the escape state reset; and the write is issued by the flush that
\* Module_Mode_EnterCommand begins with, while the mode is still Data and no
\* line has been written.
C28_BufferWrittenBeforeExit ==
    /\ [][ ( /\ current_mode = MODE_DATA
             /\ current_mode' = MODE_COMMAND
             /\ data_tx_len > 0
             /\ DevConnected(devices, target_dev_idx) )
           => /\ Len(GattWrites(calls')) = 1
              /\ GattWrites(calls')[1].args = BufferWriteArgs
              /\ LinesTagged(uart_out', "+CMDMODE") = 1
              /\ data_tx_len' = 0
              /\ escape_count' = 0
              /\ escape_detected' = 0
         ]_vars
    /\ []( ( /\ current_mode = MODE_DATA
             /\ data_tx_len > 0
             /\ DevConnected(devices, target_dev_idx) )
           => \A oks \in OkOne :
                  LET f == Module_Mode_FlushTxBuffer(Sys(oks))
                      e == Module_Mode_EnterCommand(Sys(oks))
                  IN  /\ f.current_mode = MODE_DATA
                      /\ f.uart = <<>>
                      /\ Len(GattWrites(f.calls)) = 1
                      /\ e.calls = f.calls
                      /\ e.current_mode = MODE_COMMAND
                      /\ Tags(e.uart) = <<"+CMDMODE">> )

\* the case of C28: AT+CMDMODE has ended a session with 'x' in the transmit
\* buffer and an escape run begun; the byte was written to the target
C28_Witness ==
    /\ last_op.op = "line"
    /\ last_op.line = STR_AT_CMDMODE
    /\ last_op.mode = MODE_DATA
    /\ current_mode = MODE_COMMAND
    /\ Len(GattWrites(calls)) = 1
    /\ GattWrites(calls)[1].args[3] = <<ESCAPE_SEQ_CHAR, 120>>
    /\ Len(rx_log) = 2
    /\ rx_log[1].guarded
    /\ data_tx_len = 0
    /\ Tags(uart_out) = <<"+CMDMODE", "OK">>

\* a Data-mode session of payload bytes: time passes and the main loop
\* polls, whether or not the serial port delivers anything
QuietNext ==
    \/ ModeLine(LINE_DATAMODE_0)
    \/ PayloadByte
    \/ Tick
    \/ PollEscape
    \/ LinkChangedInCommand

SpecDataLive ==
    /\ DataInit
    /\ [][QuietNext]_vars
    /\ WF_vars(Tick)
    /\ WF_vars(PollEscape)

\* C29: in Data mode, bytes in the transmit buffer are handed to a GATT
\* write once the link has been idle for longer than the coalescing
\* interval, even if no further byte arrives: a buffer that is not empty
\* after such a silence leads to an empty one.
C29_BufferedBytesEventuallyWritten ==
    (current_mode = MODE_DATA /\ data_tx_len > 0 /\ idle > DATA_FLUSH_GAP_MS)
        ~> (data_tx_len = 0)

\* the case of C29: the poll runs with bytes in the transmit buffer after a
\* silence as long as any the session can see
C29_Witness ==
    /\ last_op.op = "poll"
    /\ current_mode = MODE_DATA
    /\ data_tx_len > 0
    /\ idle = MaxSilence
    /\ gatt_log # <<>>

(***************************************************************************)
(* ParseHexString as a function: its specification draws an input and      *)
(* applies it.                                                             *)
(***************************************************************************)
\* the bytes that are encoded: both nibbles a digit, a digit and a letter,
\* both nibbles a letter, the extremes
HexTestBytes == {0, 10, 175, 255}

\* the character for nibble n, in lower case or upper case
HexDigitChar(n, lower) ==
    IF n < 10 THEN 48 + n ELSE IF lower THEN 97 + (n - 10) ELSE 65 + (n - 10)

\* the hex encoding of bytes, the k-th character in lower case iff lower[k]
HexEncode(bytes, lower) ==
    [k \in 1..(2 * Len(bytes)) |->
        LET b == bytes[(k + 1) \div 2]
        IN  HexDigitChar(IF k % 2 = 1 THEN b \div 16 ELSE b % 16, lower[k])]

\* the sequences of length 0..n over set
SeqsUpTo(set, n) == UNION {[1..k -> set] : k \in 0..n}

\* the encodings, in every mix of cases, of the byte sequences of length
\* 1..MaxHexBytes, each with every max_len that holds it
HexEncodedInputs ==
    {[kind |-> "encoded", hex_str |-> HexEncode(b, lower), bytes |-> b,
      max_len |-> m] :
        b \in SeqsUpTo(HexTestBytes, MaxHexBytes) \ {<<>>},
        lower \in [1..(2 * MaxHexBytes) -> BOOLEAN],
        m \in 1..MaxHexBytes}

\* the characters at the edges of the three ranges of hexadecimal digits:
\* '/', '0', '9', ':', '@', 'A', 'F', 'G', '`', 'a', 'f', 'g'
HexEdgeChars == {47, 48, 57, 58, 64, 65, 70, 71, 96, 97, 102, 103}

\* any string of those characters, with any max_len
HexRawInputs ==
    {[kind |-> "raw", hex_str |-> str, bytes |-> <<>>, max_len |-> m] :
        str \in SeqsUpTo(HexEdgeChars, MaxHexChars), m \in 0..MaxHexBytes}

HexInit ==
    /\ RxInit /\ ModeInit /\ ObsInit /\ HistInit /\ WireInit /\ PowerInit
    /\ tick = 0
    /\ devices = <<>>
    /\ fn_in \in {i \in HexEncodedInputs : Len(i.bytes) <= i.max_len}
                 \cup HexRawInputs
    /\ fn_out = <<>>

\* ParseHexString(fn_in.hex_str, out_bytes, fn_in.max_len)
ApplyParseHexString ==
    /\ last_op.op = "init"
    /\ fn_out' = ParseHexString(fn_in.hex_str, fn_in.max_len)
    /\ last_op' = Op("hex")
    /\ UNCHANGED <<rxVars, modeVars, tick, devices, uart_out, calls, ret,
                   histVars, fn_in, wireVars, powerVars>>

HexNext == ApplyParseHexString

SpecHex == HexInit /\ [][HexNext]_vars

\* C8: ParseHexString applied to the hex encoding (upper-case, lower-case
\* or mixed) of a byte sequence of length 1..max_len returns that length
\* and writes those bytes; applied to a string of odd length, or with a
\* character outside [0-9A-Fa-f], it returns -1.
C8_HexRoundTrip ==
    last_op.op = "hex"
        => /\ fn_in.kind = "encoded"
              => /\ fn_out.ret = Len(fn_in.bytes)
                 /\ fn_out.out = fn_in.bytes
           /\ ( \/ Len(fn_in.hex_str) % 2 = 1
                \/ \E k \in DOMAIN fn_in.hex_str :
                       fn_in.hex_str[k] \notin HexDigits )
              => fn_out.ret = -1

\* the case of C8: the mixed-case encoding "afFF" of two bytes was decoded
C8_Witness ==
    /\ last_op.op = "hex"
    /\ fn_in.kind = "encoded"
    /\ fn_in.hex_str = <<97, 102, 70, 70>>
    /\ fn_out.ret = 2
    /\ fn_out.out = <<175, 255>>

(***************************************************************************)
(* The GATT, scan and configuration commands: their specification gives    *)
(* the dispatcher whole command lines while devices are discovered and     *)
(* their links come up and go down.                                        *)
(***************************************************************************)
\* "AT+WRITE=<idx>,<handle>,<hex>"
WriteLine(idx, handle, hex) ==
    STR_AT_WRITE \o Decimal(idx) \o <<44>> \o Decimal(handle) \o <<44>> \o hex

\* the characteristic handles named by the commands: a small one, the one of
\* the documented scenario, the largest
GattHandles == {1, 18, 65535}

\* the payloads of AT+WRITE: {0x0A, 0x1B} of the documented scenario, and
\* one byte with two letter digits
WritePayloads == {<<10, 27>>, <<255>>}

\* the hex text of bytes, all letters in lower case or all in upper case
HexText(bytes, lower) ==
    HexEncode(bytes, [k \in 1..(2 * Len(bytes)) |-> lower])

\* "AT+WRITE=0,18,0A1B"
LINE_AT_WRITE_0_18_0A1B ==
    <<65, 84, 43, 87, 82, 73, 84, 69, 61, 48, 44, 49, 56, 44, 48, 65, 49, 66>>

\* indices beyond every record: the one of the documented scenario, and the
\* two largest numbers a uint8_t holds
FarIndices == {9, 254, 255}

\* the indices the GATT commands name
CmdIndices == DevIndices \cup FarIndices

WriteLines ==
    {WriteLine(i, h, HexText(b, lo)) :
        i \in DevIndices, h \in GattHandles, b \in WritePayloads,
        lo \in BOOLEAN}
    \cup {WriteLine(i, 18, HexText(<<10, 27>>, FALSE)) : i \in FarIndices}

\* "AT+READ=<idx>,<handle>"
ReadLine(idx, handle) ==
    STR_AT_READ \o Decimal(idx) \o <<44>> \o Decimal(handle)

\* "AT+NOTIFY=<idx>,<handle>,<enable>"
NotifyLine(idx, handle, enable) ==
    STR_AT_NOTIFY \o Decimal(idx) \o <<44>> \o Decimal(handle) \o <<44>>
        \o Decimal(enable)

\* "AT+DISC=<idx>"
DiscLine(idx) == STR_AT_DISC \o Decimal(idx)

\* "AT+DISCONNECT=<idx>"
DisconnectLine(idx) == STR_AT_DISCONNECT \o Decimal(idx)

\* "AT+READ=9,5"
LINE_AT_READ_9_5 == <<65, 84, 43, 82, 69, 65, 68, 61, 57, 44, 53>>

\* the lines of the five commands that name device idx
GattLinesFor(idx) ==
    {l \in WriteLines : HasPrefix(l, STR_AT_WRITE \o Decimal(idx) \o <<44>>)}
    \cup {ReadLine(idx, h) : h \in {5, 65535}}
    \cup {NotifyLine(idx, 5, en) : en \in {0, 1}}
    \cup {DiscLine(idx), DisconnectLine(idx)}

GattLines == UNION {GattLinesFor(i) : i \in CmdIndices}

\* "AT+SCAN=<n>"
ScanLine(n) == STR_AT_SCAN \o <<61>> \o Decimal(n)

\* the scan durations asked for: the smallest, the one of the documented
\* scenario, the largest
ScanDurations == {1, 2000, 65535}

\* AT+SCAN with a duration, and the forms that fall back to the default
\* duration: no argument, 0, one more than a uint16_t holds
ScanLines ==
    {ScanLine(n) : n \in ScanDurations \cup {0, 65536}} \cup {STR_AT_SCAN}

\* "AT+SLEEP=2,1,100"
LINE_AT_SLEEP_2_1_100 ==
    STR_AT_SLEEP \o <<61>> \o Decimal(2) \o <<44>> \o Decimal(1) \o <<44>>
        \o Decimal(100)

\* "AT+SLEEP=9": a sleep mode that does not exist
LINE_AT_SLEEP_9 == STR_AT_SLEEP \o <<61>> \o Decimal(9)

\* one line or more of every other command: "AT", "AT+STOP", "AT+CLEAR",
\* "AT+LIST", "AT+CONNECT=AA:BB:CC:DD:EE:F0", "AT+INFO=0", "AT+RESET",
\* "AT+HWRESET", "AT+FACTORY", "AT+GETINFO", "AT+NAME=x", "AT+NAME=",
\* "AT+RF=4,100,50", "AT+SAVE", "AT+CMDMODE", "AT+DATAMODE=<idx>,5",
\* "AT+STATUS", "AT+STATUS=0", "AT+SLEEP", "AT+SLEEP=2,1,100", "AT+SLEEP=9",
\* "AT+WAKE", "AT+DIAG=0"
SystemLines ==
    {STR_AT, STR_AT_STOP, STR_AT_CLEAR, STR_AT_LIST,
     STR_AT_CONNECT \o MacText(0), STR_AT_INFO \o Decimal(0),
     STR_AT_RESET, STR_AT_HWRESET, STR_AT_FACTORY, STR_AT_GETINFO,
     STR_AT_NAME \o <<120>>, STR_AT_NAME,
     STR_AT_RF \o Decimal(4) \o <<44>> \o Decimal(100) \o <<44>> \o Decimal(50),
     STR_AT_SAVE, STR_AT_CMDMODE, STR_AT_STATUS,
     STR_AT_STATUS \o <<61>> \o Decimal(0),
     STR_AT_SLEEP, LINE_AT_SLEEP_2_1_100, LINE_AT_SLEEP_9,
     STR_AT_WAKE, STR_AT_DIAG \o Decimal(0)}
    \cup {DataModeLine(i, 5) : i \in DevIndices}

\* "AT+COMM=<baud>,<parity>,<stop>"
CommLine(baud, parity, stop) ==
    STR_AT_COMM \o Decimal(baud) \o <<44>> \o Decimal(parity) \o <<44>>
        \o Decimal(stop)

\* baud rates of the documented range 9600..921600: both ends, and two
\* standard rates on either side of 65535
CommBauds == {9600, 57600, 115200, 921600}

\* AT+COMM with every baud rate, parity and stop-bit count of the documented
\* ranges, and with a baud rate below the range: "AT+COMM=4800,0,1"
CommLines ==
    {CommLine(b, p, st) : b \in CommBauds, p \in 0..2, st \in 1..2}
    \cup {CommLine(4800, 0, 1)}

\* the decimal text of a signed number
SignedDecimal(n) == IF n < 0 THEN <<45>> \o Decimal(-n) ELSE Decimal(n)

\* "AT+RF=<tx_power>,100,50"
RfLine(tx_power) ==
    STR_AT_RF \o SignedDecimal(tx_power) \o <<44>> \o Decimal(100) \o <<44>>
        \o Decimal(50)

\* the TX powers asked for: the ends of -40..+6 and values inside it, the
\* first value above it, and the values around the sign bit and around
\* 256 - 40 of a byte
RfPowers == {-40, -1, 0, 6, 7, 127, 128, 215, 216, 254}

RfLines == {RfLine(tx) : tx \in RfPowers}

\* the lines that match a command of the dispatcher
RecognisedLines ==
    GattLines \cup ScanLines \cup SystemLines \cup CommLines \cup RfLines

\* link noise: "", "A", "A\r\n", "\r\n", " ", "+", "XT+LIST", "TA",
\* " AT" and "1AT+LIST\r\n"
NoiseLines ==
    {<<>>, <<65>>, <<65, 13, 10>>, <<13, 10>>, <<32>>, <<43>>,
     <<88>> \o Tail(STR_AT_LIST), <<84, 65>>, <<32, 65, 84>>,
     <<49>> \o STR_AT_LIST \o <<13, 10>>}

\* lines that start with "AT" and match no command: "AT+FOO", "AT+FOO\r\n",
\* "ATZ", "AT+", "at+foo", "AT+LIS", "AT+RESETX", "AT+STOP=1", "AT+READ"
UnknownLines ==
    {LINE_AT_UNKNOWN, LINE_AT_UNKNOWN \o <<13, 10>>, <<65, 84, 90>>,
     <<65, 84, 43>>, <<97, 116, 43, 102, 111, 111>>,
     SubSeq(STR_AT_LIST, 1, 6), STR_AT_RESET \o <<88>>,
     STR_AT_STOP \o <<61, 49>>, SubSeq(STR_AT_READ, 1, 7)}

\* the command lines given to the dispatcher
\* AT+DISCONNECT=abc, AT+READ=x,5 and AT+DATAMODE=?,3: the device index is
\* no decimal number
LINE_AT_DISCONNECT_ABC == STR_AT_DISCONNECT \o <<97, 98, 99>>
LINE_AT_READ_X_5 == STR_AT_READ \o <<120, 44, 53>>
LINE_AT_DATAMODE_Q_3 == STR_AT_DATAMODE \o <<63, 44, 51>>

BadNumberLines ==
    {LINE_AT_DISCONNECT_ABC, LINE_AT_READ_X_5, LINE_AT_DATAMODE_Q_3}

\* the commands that take no arguments
NoArgCommands ==
    {STR_AT, STR_AT_STOP, STR_AT_CLEAR, STR_AT_LIST, STR_AT_RESET,
     STR_AT_HWRESET, STR_AT_FACTORY, STR_AT_GETINFO, STR_AT_SAVE,
     STR_AT_CMDMODE, STR_AT_WAKE}

\* each of them followed by an X, and by an X and a line end
ExtendedLines ==
    {cmd \o <<88>> : cmd \in NoArgCommands}
    \cup {cmd \o <<88, 13, 10>> : cmd \in NoArgCommands}

CmdLines ==
    RecognisedLines \cup NoiseLines \cup UnknownLines \cup BadNumberLines
    \cup ExtendedLines

\* AT_Command_Process on one of the command lines; once Data mode is
\* entered the serial bytes are payload, and of the lines only the way back,
\* AT+CMDMODE, is given
CommandLine(line) ==
    /\ current_mode = MODE_COMMAND \/ line = STR_AT_CMDMODE
    /\ ProcessLine(line, OkOne)

CmdNext ==
    \/ \E line \in CmdLines : CommandLine(line)
    \/ BLE_DeviceDiscovered
    \/ \E idx \in 0..(MaxDevices - 1), up \in BOOLEAN : BLE_LinkChanged(idx, up)

SpecCmd == Init /\ [][CmdNext]_vars

\* C11: AT+WRITE=<idx>,<handle>,<hex> for a connected device, a handle in
\* 1..65535 and a non-empty even-length string of hex digits makes exactly
\* one collaborator call, a characteristic write on that device's connection
\* to <handle> with exactly the decoded bytes, and writes one line: OK when
\* the call is accepted, ERROR when it is rejected.
C11_WriteIssuesOneGattWrite ==
    \A idx \in DevIndices, h \in GattHandles, b \in WritePayloads,
       lo \in BOOLEAN :
        ( /\ last_op.op = "line"
          /\ last_op.line = WriteLine(idx, h, HexText(b, lo))
          /\ DevConnected(devices, idx) )
            => /\ Len(calls) = 1
               /\ calls[1].fn = "BLE_GATT_WriteCharacteristic"
               /\ calls[1].args = <<Device(devices, idx).conn_handle, h, b>>
               /\ Tags(uart_out) = <<IF calls[1].ok THEN "OK" ELSE "ERROR">>

\* the case of C11: "AT+WRITE=0,18,0A1B" was given while device 0 was
\* connected, and the write of {0x0A, 0x1B} to handle 18 was accepted
C11_Witness ==
    /\ last_op.op = "line"
    /\ last_op.line = LINE_AT_WRITE_0_18_0A1B
    /\ DevConnected(devices, 0)
    /\ Len(calls) = 1
    /\ calls[1].args = <<Device(devices, 0).conn_handle, 18, <<10, 27>>>>
    /\ Tags(uart_out) = <<"OK">>

\* C12 as it is worded, for every index a uint8_t holds: AT+READ, AT+WRITE,
\* AT+NOTIFY, AT+DISC and AT+DISCONNECT naming a device that does not exist
\* or is not connected write +ERROR:NOT_CONNECTED as their only line and
\* make no collaborator call.
C12_AnyIndexRefused ==
    \A idx \in CmdIndices :
        ( /\ last_op.op = "line"
          /\ last_op.line \in GattLinesFor(idx)
          /\ ~DevConnected(devices, idx) )
            => /\ Tags(uart_out) = <<"+ERROR:NOT_CONNECTED">>
               /\ calls = <<>>

\* C12: AT+READ, AT+WRITE, AT+NOTIFY, AT+DISC and AT+DISCONNECT naming an
\* index in 0..254 whose device does not exist or is not connected write
\* +ERROR:NOT_CONNECTED as their only line and make no collaborator call.
C12_UnconnectedDeviceRefused ==
    \A idx \in CmdIndices \ {255} :
        ( /\ last_op.op = "line"
          /\ last_op.line \in GattLinesFor(idx)
          /\ ~DevConnected(devices, idx) )
            => /\ Tags(uart_out) = <<"+ERROR:NOT_CONNECTED">>
               /\ calls = <<>>

\* the case of C12: "AT+READ=9,5" was given while two devices were known,
\* one of them connected
C12_Witness ==
    /\ last_op.op = "line"
    /\ last_op.line = LINE_AT_READ_9_5
    /\ Len(devices) = 2
    /\ DevConnected(devices, 0)
    /\ Tags(uart_out) = <<"+ERROR:NOT_CONNECTED">>

\* C13: AT+SCAN=<n> with n in 1..65535 makes exactly one collaborator call,
\* a scan start with duration n, and writes exactly one line: OK when the
\* start succeeded, ERROR when it failed.
C13_ScanStartsOnce ==
    \A n \in ScanDurations :
        ( /\ last_op.op = "line"
          /\ last_op.line = ScanLine(n) )
            => /\ Len(calls) = 1
               /\ calls[1].fn = "BLE_Connection_StartScan"
               /\ calls[1].args = <<n>>
               /\ Tags(uart_out) = <<IF calls[1].ok THEN "OK" ELSE "ERROR">>

\* the case of C13: "AT+SCAN=2000" was given and the scan did not start
C13_Witness ==
    /\ last_op.op = "line"
    /\ last_op.line = LINE_AT_SCAN_2000
    /\ Len(calls) = 1
    /\ calls[1].args = <<2000>>
    /\ ~calls[1].ok
    /\ Tags(uart_out) = <<"ERROR">>

\* the terminal status lines: OK, ERROR and the +ERROR:<REASON> lines
StatusTags ==
    {"OK", "ERROR", "+ERROR:NOT_CONNECTED", "+ERROR:NO_DATA",
     "+ERROR:INVALID_HEX", "+ERROR:NOT_FOUND", "+ERROR:NOT_SUPPORTED",
     "+ERROR:INVALID_MODE"}

\* tags holds exactly one status line, and it is the last line
OneStatusLast(tags) ==
    /\ Len(tags) >= 1
    /\ tags[Len(tags)] \in StatusTags
    /\ \A k \in 1..(Len(tags) - 1) : tags[k] \notin StatusTags

\* C14: the lines a recognised command writes in one dispatch hold exactly
\* one status line (OK, ERROR or +ERROR:<REASON>), and it comes last: every
\* informational line of the command is written before it.
C14_OneStatusLineLast ==
    ( /\ last_op.op = "line"
      /\ last_op.line \in RecognisedLines )
        => OneStatusLast(Tags(uart_out))

\* the case of C14: "AT+SLEEP=2,1,100" was dispatched
C14_Witness ==
    /\ last_op.op = "line"
    /\ last_op.line = LINE_AT_SLEEP_2_1_100
    /\ Len(uart_out) = 2

\* line, without its trailing CR, LF and spaces, is shorter than two
\* characters or does not start with "AT" in any letter case
IsLinkNoise(line) ==
    \E n \in 0..Len(line) :
        /\ \A k \in (n + 1)..Len(line) :
               line[k] \in {ASCII_CR, ASCII_LF, ASCII_SPACE}
        /\ n > 0 => line[n] \notin {ASCII_CR, ASCII_LF, ASCII_SPACE}
        /\ \/ n < 2
           \/ line[1] \notin {65, 97}
           \/ line[2] \notin {84, 116}

\* C15: AT_Command_Process writes nothing to the serial port and calls no
\* collaborator for link noise and for a line that starts with "AT" and
\* matches no command.
C15_NoiseAndUnknownSilent ==
    ( /\ last_op.op = "line"
      /\ IsLinkNoise(last_op.line) \/ last_op.line \in UnknownLines )
        => /\ uart_out = <<>>
           /\ calls = <<>>

\* the case of C15: "AT+FOO" was given while a device was connected
C15_Witness ==
    /\ last_op.op = "line"
    /\ last_op.line = LINE_AT_UNKNOWN
    /\ DevConnected(devices, 0)
    /\ uart_out = <<>>

(***************************************************************************)
(* The Data-mode tunnel: its specification enters and leaves Data mode,    *)
(* feeds payload bytes back to back, flushes the transmit buffer, and lets *)
(* the target's link come up and go down in either mode.                   *)
(***************************************************************************)
\* the characteristic handles a tunnel is opened to
TunnelHandles == {5, 7}

\* "AT+DATAMODE=<idx>,<handle>" for every record, "AT+CMDMODE", "AT+CLEAR"
TunnelLines ==
    {DataModeLine(i, h) : i \in 0..(MaxDevices - 1), h \in TunnelHandles}
    \cup {STR_AT_CMDMODE, STR_AT_CLEAR}

\* AT_Command_Process on one of the tunnel's lines
TunnelLine(line) == ProcessLine(line, OkOne)

\* Module_Mode_FlushTxBuffer() called on its own
FlushTxBuffer ==
    /\ \E oks \in OkOne :
         LET s == Module_Mode_FlushTxBuffer(Sys(oks))
         IN  /\ Commit(s)
             /\ gatt_log' = gatt_log \o GattBytes(s.calls)
             /\ write_failed' = (write_failed \/ WriteFailed(s.calls))
    /\ last_op' = Op("flush")
    /\ UNCHANGED <<rxVars, tick, idle, rx_log, abandoned, fnVars, wireVars,
                   powerVars>>

\* the connection handles notifications arrive on: those of the records,
\* and one that belongs to no record
NotifyConns ==
    {DeviceRecord(i).conn_handle : i \in 0..(MaxDevices - 1)} \cup {4095}

\* the payloads of the notifications: a zero byte, and "+++"
NotifyPayloads == {<<0>>, <<43, 43, 43>>}

\* the BLE stack delivers a notification: Module_Mode_ProcessGATTData
GATT_Notification(conn_handle, handle, data) ==
    /\ LET s == Module_Mode_ProcessGATTData(Sys(<<>>), conn_handle, handle, data)
       IN  Commit(s)
    /\ last_op' = [Op("notify") EXCEPT !.idx = conn_handle,
                                       !.handle = handle,
                                       !.line = data]
    /\ IF current_mode = MODE_COMMAND THEN HistReset ELSE UNCHANGED histVars
    /\ UNCHANGED <<rxVars, tick, fnVars, wireVars, powerVars>>

TunnelNext ==
    \/ \E line \in TunnelLines : TunnelLine(line)
    \/ PayloadByte
    \/ FlushTxBuffer
    \/ \E c \in NotifyConns, h \in TunnelHandles, d \in NotifyPayloads :
           GATT_Notification(c, h, d)
    \/ BLE_DeviceDiscovered
    \/ \E idx \in 0..(MaxDevices - 1), up \in BOOLEAN : BLE_LinkChanged(idx, up)

SpecTunnel == Init /\ [][TunnelNext]_vars

\* C16: a flush that fails in Data mode, because the target is gone or
\* disconnected or because the GATT write returns an error, leaves the
\* transmit buffer empty and the mode Command.
C16_FailedFlushLeavesDataMode ==
    ( /\ last_op.op = "flush"
      /\ last_op.mode = MODE_DATA
      /\ ret = -1 )
        => /\ data_tx_len = 0
           /\ current_mode = MODE_COMMAND

\* the case of C16: a flush in Data mode handed the buffered bytes to a GATT
\* write, which returned an error
C16_Witness ==
    /\ last_op.op = "flush"
    /\ last_op.mode = MODE_DATA
    /\ ret = -1
    /\ Len(calls) = 1
    /\ calls[1].fn = "BLE_GATT_WriteCharacteristic"
    /\ ~calls[1].ok
    /\ data_tx_len = 0

\* Module_Mode_GetTargetDevice() and Module_Mode_GetTargetHandle()
Module_Mode_GetTargetDevice == target_dev_idx

Module_Mode_GetTargetHandle == target_char_handle

\* C17: whenever the mode is Command, Module_Mode_GetTargetDevice returns
\* 0xFF and Module_Mode_GetTargetHandle returns 0; and a step that sets the
\* target index or handle ends in Data mode and names a device that is
\* connected at that step.
C17_TargetOnlyInDataMode ==
    /\ [](current_mode = MODE_COMMAND
            => /\ Module_Mode_GetTargetDevice = NO_DEVICE
               /\ Module_Mode_GetTargetHandle = 0)
    /\ [][ ( /\ <<target_dev_idx', target_char_handle'>>
                    # <<target_dev_idx, target_char_handle>>
              /\ <<target_dev_idx', target_char_handle'>> # <<NO_DEVICE, 0>> )
            => /\ current_mode' = MODE_DATA
               /\ DevConnected(devices, target_dev_idx')
               /\ DevConnected(devices', target_dev_idx') ]_vars

\* the case of C17: Data mode towards device 1, handle 7, was left because a
\* flush found the target disconnected, and the target is cleared
C17_Witness ==
    /\ last_op.op = "flush"
    /\ last_op.mode = MODE_DATA
    /\ current_mode = MODE_COMMAND
    /\ Len(devices) = 2
    /\ ~DevConnected(devices, 1)
    /\ DevConnected(devices, 0)
    /\ Module_Mode_GetTargetDevice = NO_DEVICE
    /\ Module_Mode_GetTargetHandle = 0

\* C18: Module_Mode_FlushTxBuffer returns the number of bytes it flushed:
\* k when it handed k > 0 buffered bytes to a GATT write that succeeded, and
\* 0 only when it wrote nothing.
C18_FlushReturnsCount ==
    last_op.op = "flush"
        => /\ ( /\ Len(calls) = 1
                /\ calls[1].fn = "BLE_GATT_WriteCharacteristic"
                /\ calls[1].ok )
              => ret = Len(calls[1].args[3])
           /\ ret = 0 => calls = <<>>

\* the case of C18: a flush handed two buffered bytes to a GATT write, which
\* succeeded
C18_Witness ==
    /\ last_op.op = "flush"
    /\ Len(calls) = 1
    /\ calls[1].fn = "BLE_GATT_WriteCharacteristic"
    /\ calls[1].ok
    /\ Len(calls[1].args[3]) = 2

\* C19: Module_Mode_ProcessGATTData writes the payload, unchanged and in
\* full, to the serial port if and only if the mode is Data, the connection
\* handle is that of the target device's record and the attribute handle is
\* the target characteristic handle; in every other case it writes nothing
\* and changes no state.
C19_NotificationForwarded ==
    [][ last_op'.op = "notify"
        => LET match ==
                   /\ current_mode = MODE_DATA
                   /\ HasDevice(devices, target_dev_idx)
                   /\ Device(devices, target_dev_idx).conn_handle = last_op'.idx
                   /\ target_char_handle = last_op'.handle
           IN  /\ match => uart_out' = <<[tag |-> "HAL_UART_Transmit",
                                          args |-> <<last_op'.line>>]>>
               /\ ~match => /\ uart_out' = <<>>
                            /\ calls' = <<>>
                            /\ UNCHANGED <<modeVars, devices>> ]_vars

\* the case of C19: in Data mode towards device 1, handle 7, with a second
\* device known, the notification "+++" from the target came out on the
\* serial port
C19_Witness ==
    /\ last_op.op = "notify"
    /\ current_mode = MODE_DATA
    /\ target_dev_idx = 1
    /\ target_char_handle = 7
    /\ last_op.idx = DeviceRecord(1).conn_handle
    /\ uart_out = <<[tag |-> "HAL_UART_Transmit", args |-> <<<<43, 43, 43>>>>]>>
    /\ escape_count = 0

\* C20: AT+COMM=<baud>,<parity>,<stop> with baud in 9600..921600, parity in
\* 0..2 and stop in 1..2 hands exactly these numbers (and 8 data bits) to
\* Module_Config_SetUART, which stores them, and answers OK.
C20_CommStoresParameters ==
    \A b \in CommBauds, p \in 0..2, st \in 1..2 :
        ( /\ last_op.op = "line"
          /\ last_op.line = CommLine(b, p, st) )
            => /\ Len(calls) >= 1
               /\ calls[1].fn = "Module_Config_SetUART"
               /\ calls[1].args = <<b, p, st, 8>>
               /\ calls[1].ok
               /\ Tags(uart_out) = <<"OK">>

\* the case of C20: "AT+COMM=115200,0,1" was dispatched
C20_Witness ==
    /\ last_op.op = "line"
    /\ last_op.line = STR_AT_COMM \o <<49, 49, 53, 50, 48, 48, 44, 48, 44, 49>>
    /\ Len(calls) >= 1
    /\ calls[1].fn = "Module_Config_SetUART"

\* C21: AT+RF=<tx_power>,<scan_int>,<scan_win> changes the RF configuration
\* only when tx_power lies in -40..+6, and then stores exactly the requested
\* value; every other tx_power is answered with ERROR and nothing is stored.
C21_RfPowerValidated ==
    \A tx \in RfPowers :
        ( /\ last_op.op = "line"
          /\ last_op.line = RfLine(tx) )
            => IF tx >= -40 /\ tx <= 6
               THEN /\ Len(calls) >= 1
                    /\ calls[1].fn = "Module_Config_SetRF"
                    /\ calls[1].ok
                    /\ calls[1].args = <<tx, 100, 50, 24, 40>>
                    /\ Tags(uart_out) = <<"OK">>
               ELSE /\ \A k \in DOMAIN calls :
                           calls[k].fn = "Module_Config_SetRF" => ~calls[k].ok
                    /\ Tags(uart_out) = <<"ERROR">>

\* the case of C21: "AT+RF=254,100,50" was dispatched
C21_Witness ==
    /\ last_op.op = "line"
    /\ last_op.line = RfLine(254)
    /\ Len(calls) >= 1
    /\ calls[1].fn = "Module_Config_SetRF"


\* C27: a step that takes the mode from Command to Data writes exactly one
\* +DATAMODE line; a step that takes it from Data to Command (AT+CMDMODE, or
\* the loss of the target found by a flush, the flush of an explicit exit
\* included) writes exactly one +CMDMODE line; AT+CMDMODE in Command mode
\* writes no +CMDMODE line.
C27_OneLinePerTransition ==
    [][ /\ (current_mode = MODE_COMMAND /\ current_mode' = MODE_DATA)
            => LinesTagged(uart_out', "+DATAMODE") = 1
        /\ (current_mode = MODE_DATA /\ current_mode' = MODE_COMMAND)
            => LinesTagged(uart_out', "+CMDMODE") = 1
        /\ ( /\ current_mode = MODE_COMMAND
             /\ last_op'.op = "line"
             /\ last_op'.line = STR_AT_CMDMODE )
            => LinesTagged(uart_out', "+CMDMODE") = 0
      ]_vars

\* the case of C27: AT+CMDMODE has ended a Data-mode session whose target
\* had disconnected with bytes still in the transmit buffer
C27_Witness ==
    /\ last_op.op = "line"
    /\ last_op.line = STR_AT_CMDMODE
    /\ last_op.mode = MODE_DATA
    /\ current_mode = MODE_COMMAND
    /\ \A i \in DOMAIN calls : calls[i].fn # "BLE_GATT_WriteCharacteristic"
    /\ LinesTagged(uart_out, "+CMDMODE") > 1

\* C32: a command that takes no arguments is dispatched only when the whole
\* trimmed line equals it: a line that is such a command followed by an X
\* reaches no handler, so nothing is written, no collaborator is called and
\* the mode is left as it was.
C32_NoArgCommandsExact ==
    (last_op.op = "line" /\ last_op.line \in ExtendedLines)
        => /\ uart_out = <<>>
           /\ calls = <<>>
           /\ current_mode = last_op.mode

\* the case of C32: AT+LISTX has been processed with a device known
C32_Witness ==
    /\ last_op.op = "line"
    /\ last_op.line = STR_AT_LIST \o <<88>>
    /\ devices # <<>>

\* the lines of this specification that name the device with index idx
IndexedLinesFor(idx) ==
    GattLinesFor(idx)
    \cup {DataModeLine(idx, 5), STR_AT_INFO \o Decimal(idx),
          STR_AT_STATUS \o <<61>> \o Decimal(idx),
          STR_AT_DIAG \o Decimal(idx)}

\* the answers that name a reason
ReasonTags == StatusTags \ {"OK", "ERROR"}

\* C31: a command given a valid index for which no device exists is answered
\* with one +ERROR:<REASON> line, not a bare ERROR, calls no collaborator and
\* leaves the mode as it was.
C31_MissingDeviceNamedReason ==
    \A idx \in CmdIndices \ {255} :
        ( /\ last_op.op = "line"
          /\ last_op.line \in IndexedLinesFor(idx)
          /\ ~HasDevice(devices, idx) )
            => /\ Len(uart_out) = 1
               /\ uart_out[1].tag \in ReasonTags
               /\ calls = <<>>
               /\ current_mode = last_op.mode

\* the case of C31: AT+INFO=0 has been processed with no device known
C31_Witness ==
    /\ last_op.op = "line"
    /\ last_op.line = STR_AT_INFO \o Decimal(0)
    /\ devices = <<>>
    /\ uart_out # <<>>

\* the answers that report a failure
ErrorTags == StatusTags \ {"OK"}

\* C30: a command whose numeric argument is no decimal number is answered
\* with ERROR or +ERROR:<REASON> and nothing else, and no connection, GATT or
\* mode operation is performed: no collaborator is called and the mode stays
\* Command.
C30_BadNumberRefused ==
    (last_op.op = "line" /\ last_op.line \in BadNumberLines)
        => /\ Len(uart_out) = 1
           /\ uart_out[1].tag \in ErrorTags
           /\ calls = <<>>
           /\ current_mode = MODE_COMMAND

\* the case of C30: AT+DISCONNECT=abc has been processed while device 0 was
\* connected
C30_Witness ==
    /\ last_op.op = "line"
    /\ last_op.line = LINE_AT_DISCONNECT_ABC
    /\ HasDevice(devices, 0)
    /\ calls # <<>>

(***************************************************************************)
(* SpecWire: the serial line.  AT_Response_Send formats a line into its    *)
(* static response_buf and then hands the buffer to HAL_UART_Transmit,     *)
(* which sends it piece by piece; the dispatcher does so for every line of *)
(* a command, while the event path of the BLE stack, which runs            *)
(* concurrently with the dispatcher, sends its own lines.                  *)
(***************************************************************************)

\* the pieces a line is transmitted in
WireParts == 2

\* the longest stretch of serial output followed
MaxWire == 6

\* what reaches the serial line when the buffer holding `line` is sent whole
Parts(line) == [p \in 1..WireParts |-> [line |-> line, part |-> p]]

\* BLE_EventHandler_OnServiceDiscovered: one +SERVICE line per record of the
\* discovery data
RECURSIVE OnServiceDiscovered_Loop(_, _, _, _, _)
OnServiceDiscovered_Loop(s, data, attr_data_len, num_services, i) ==
    IF i >= num_services
    THEN s
    ELSE LET offset == (i * attr_data_len) % 256
             U16(k) == data[offset + k + 1] + 256 * data[offset + k + 2]
             s1 == IF attr_data_len = 6
                   THEN AT_Response_Send(s, "+SERVICE",
                                         <<U16(0), U16(2), U16(4)>>)
                   ELSE IF attr_data_len = 20
                   THEN AT_Response_Send(s, "+SERVICE",
                                         <<U16(0), U16(2), U16(16)>>)
                   ELSE s
         IN  OnServiceDiscovered_Loop(s1, data, attr_data_len, num_services,
                                      i + 1)

BLE_EventHandler_OnServiceDiscovered(s, conn_handle, data, data_len, attr_data_len) ==
    OnServiceDiscovered_Loop(s, data, attr_data_len,
                             (data_len \div attr_data_len) % 256, 0)

\* the static buffer after a writer that is not interrupted has sent `lines`:
\* AT_Response_Send formats into it, HAL_UART_Transmit called directly does not
RECURSIVE BufferAfter(_, _)
BufferAfter(buf, lines) ==
    IF lines = <<>> THEN buf
    ELSE BufferAfter(IF Head(lines).tag = "HAL_UART_Transmit"
                     THEN buf ELSE Head(lines),
                     Tail(lines))

\* the serial line after a writer that is not interrupted has sent `lines`
RECURSIVE WireAfter(_, _)
WireAfter(w, lines) ==
    IF lines = <<>> THEN w
    ELSE WireAfter(w \o Parts(Head(lines)), Tail(lines))

\* the commands of this specification
WireLines == {STR_AT, DataModeLine(0, 5)}

\* the dispatcher runs a command; its lines are sent in the steps that follow
WireCommand(line) ==
    /\ current_mode = MODE_COMMAND
    /\ tx_queue = <<>>
    /\ \E oks \in OkOne :
         LET s == AT_Command_Process(Sys(oks), line)
         IN  /\ Commit(s) /\ HistAfter(s) /\ tx_queue' = s.uart
             /\ PowerCommit(PowerAfter(s.calls))
    /\ wire' = <<>>
    /\ last_op' = [Op("line") EXCEPT !.line = line]
    /\ UNCHANGED <<rxVars, tick, fnVars, response_buf, tx_pc, tx_part>>

\* AT_Response_Send, vsnprintf(response_buf, ...)
AT_Response_Send_Format ==
    /\ tx_queue # <<>>
    /\ tx_pc = "idle"
    /\ response_buf' = Head(tx_queue)
    /\ tx_pc' = "tx"
    /\ tx_part' = 0
    /\ last_op' = Op("format")
    /\ UNCHANGED <<rxVars, modeVars, tick, devices, uart_out, calls, ret,
                   histVars, fnVars, powerVars, tx_queue, wire>>

\* AT_Response_Send, HAL_UART_Transmit(&hlpuart1, response_buf, len, 100):
\* the next piece of the buffer goes out; after the last one the call returns
AT_Response_Send_Transmit ==
    /\ tx_pc = "tx"
    /\ wire' = Append(wire, [line |-> response_buf, part |-> tx_part + 1])
    /\ IF tx_part + 1 = WireParts
       THEN /\ tx_pc' = "idle"
            /\ tx_part' = 0
            /\ tx_queue' = Tail(tx_queue)
            /\ last_op' = [Op("sent") EXCEPT !.line = Head(tx_queue)]
       ELSE /\ tx_part' = tx_part + 1
            /\ last_op' = Op("transmit")
            /\ UNCHANGED <<tx_pc, tx_queue>>
    /\ UNCHANGED <<rxVars, modeVars, tick, devices, uart_out, calls, ret,
                   histVars, fnVars, powerVars, response_buf>>

\* the discovery data of one and of two services, 16-bit UUIDs
ServiceData == {<<1, 0, 5, 0, 0, 24>>,
                <<1, 0, 5, 0, 0, 24, 6, 0, 9, 0, 1, 24>>}

\* the event path delivers a service discovery result
ServiceDiscovered(data) ==
    /\ Len(wire) + WireParts * (Len(data) \div 6) <= MaxWire
    /\ LET s == BLE_EventHandler_OnServiceDiscovered(
                    Sys(<<>>), 0, data, Len(data), 6)
       IN  /\ response_buf' = BufferAfter(response_buf, s.uart)
           /\ wire' = WireAfter(wire, s.uart)
    /\ last_op' = [Op("service") EXCEPT !.line = data]
    /\ UNCHANGED <<rxVars, modeVars, tick, devices, uart_out, calls, ret,
                   histVars, fnVars, powerVars, tx_queue, tx_pc, tx_part>>

\* the event path delivers a notification
WireNotification(conn_handle, handle, data) ==
    /\ Len(wire) + WireParts <= MaxWire
    /\ LET s == Module_Mode_ProcessGATTData(Sys(<<>>), conn_handle, handle,
                                            data)
       IN  /\ response_buf' = BufferAfter(response_buf, s.uart)
           /\ wire' = WireAfter(wire, s.uart)
    /\ last_op' = [Op("notify") EXCEPT !.idx = conn_handle,
                                       !.handle = handle,
                                       !.line = data]
    /\ UNCHANGED <<rxVars, modeVars, tick, devices, uart_out, calls, ret,
                   histVars, fnVars, powerVars, tx_queue, tx_pc, tx_part>>

WireNext ==
    \/ \E line \in WireLines : WireCommand(line)
    \/ AT_Response_Send_Format
    \/ AT_Response_Send_Transmit
    \/ \E data \in ServiceData : ServiceDiscovered(data)
    \/ \E conn \in NotifyConns, handle \in TunnelHandles :
           WireNotification(conn, handle, <<43, 43, 43>>)
    \/ BLE_DeviceDiscovered
    \/ \E idx \in 0..(MaxDevices - 1), up \in BOOLEAN : BLE_LinkChanged(idx, up)

SpecWire == Init /\ [][WireNext]_vars

\* C23: every line the dispatcher sends reaches the serial line contiguous
\* and unmodified, also when the event path delivers a discovery line or a
\* notification payload meanwhile: when AT_Response_Send returns, the end of
\* the serial output is the line it was called with, whole and in one piece.
C23_ResponseLinesContiguous ==
    last_op.op = "sent"
        => /\ Len(wire) >= WireParts
           /\ SubSeq(wire, Len(wire) - WireParts + 1, Len(wire))
                  = Parts(last_op.line)

\* the case of C23: the dispatcher has sent a line while the event path
\* delivered a discovery line
C23_Witness ==
    /\ last_op.op = "sent"
    /\ last_op.line.tag = "OK"
    /\ \E k \in DOMAIN wire : wire[k].line.tag = "+SERVICE"


(***************************************************************************)
(* The serial port's two consumers together: the interrupt hands a byte    *)
(* to the line receiver in Command mode and to the tunnel in Data mode,    *)
(* the deferred task drains and dispatches, and the link of the target     *)
(* comes and goes between two Data-mode sessions.                          *)
(***************************************************************************)
\* the bytes the interrupt delivers in Command mode: a terminator, a
\* printable byte and a control byte
BufBytes == {ASCII_CR, ASCII_SPACE, 31}

\* a mode command reaches AT_Command_Process when the receiver that took it
\* in has been drained and holds nothing new
DispatchModeLine(line) ==
    /\ proc_pc = "idle" /\ at_line_idx = 0 /\ at_cmd_ready = 0
    /\ ModeLine(line)

\* the silence before the first byte of a Data-mode session, long enough
\* for one guard time
LeadingSilence ==
    /\ tick < ESCAPE_GUARD_TIME_MS
    /\ rx_log = <<>>
    /\ Tick

BufNext ==
    \/ \E byte \in BufBytes : AT_Command_ReceiveByte(byte)
    \/ ProcessReady_Check
    \/ ProcessReady_Copy
    \/ ProcessReady_Run
    \/ \E line \in ModeLines : DispatchModeLine(line)
    \/ \E byte \in DataBytes : DataByte(byte)
    \/ LeadingSilence
    \/ LinkChangedInCommand

SpecBuf == DataInit /\ [][BufNext]_vars

\* C34: no operation writes outside its buffer.  The line fill cursor is at
\* most AT_CMD_MAX_LEN-1, so the line with its NUL and the drain's copy hold
\* at most AT_CMD_MAX_LEN bytes; the transmit length is at most
\* DATA_TX_BUFFER_SIZE and is the number of bytes held, and no GATT write
\* hands over more than DATA_TX_BUFFER_SIZE bytes (every byte handed over or
\* held was appended below DATA_TX_BUFFER_SIZE), for any bytes and any flush
\* outcome.
C34_BuffersNeverOverrun ==
    /\ at_line_idx <= AT_CMD_MAX_LEN - 1
    /\ Len(at_line_buf) <= AT_CMD_MAX_LEN
    /\ Len(at_cmd_buf) <= AT_CMD_MAX_LEN
    /\ data_tx_len <= DATA_TX_BUFFER_SIZE
    /\ Len(data_tx_buffer) = data_tx_len
    /\ \A i \in DOMAIN calls :
           IsGattWrite(calls[i]) => Len(calls[i].args[3]) <= DATA_TX_BUFFER_SIZE

\* a full line has been drained, and the tunnel has just flushed, in a write
\* that failed, a buffer that replayed '+' bytes had filled beyond the
\* flush threshold
C34_Witness ==
    /\ Len(at_cmd_buf) = AT_CMD_MAX_LEN
    /\ last_op.op = "byte"
    /\ \E i \in DOMAIN calls :
           /\ IsGattWrite(calls[i])
           /\ ~calls[i].ok
           /\ Len(calls[i].args[3])
                > DATA_TX_BUFFER_SIZE - DATA_TX_FLUSH_MARGIN

(***************************************************************************)
(* Module_Mode_EnterCommand in task context, taken apart at the points     *)
(* where the serial interrupt can fall (module_mode.c:54-76, 218-255), and *)
(* Module_Mode_ProcessDataByte run to its end by the interrupt at any of   *)
(* them.  proc_pc is the task's position: "write" before and "written"     *)
(* after the call of BLE_GATT_WriteCharacteristic, "switch" after the      *)
(* flush.                                                                  *)
(***************************************************************************)
\* the task leaves the receiver's statics alone
TaskKeepsReceiver ==
    UNCHANGED <<at_line_buf, at_line_idx, at_cmd_ready, at_garbage_count,
                at_rx_tick, at_cmd_buf, task_pending, rx_fed, rx_raised,
                rx_long>>

\* Module_Mode_EnterCommand up to the GATT write of its flush: the mode
\* test, and Module_Mode_FlushTxBuffer's tests of the length, the mode and
\* the target
EnterCommand_Begin ==
    /\ proc_pc = "idle"
    /\ current_mode = MODE_DATA
    /\ IF data_tx_len = 0 \/ ~DevConnected(devices, target_dev_idx)
       THEN /\ Commit(Module_Mode_FlushTxBuffer(Sys(<<>>)))
            /\ proc_pc' = "switch"
       ELSE /\ UNCHANGED <<modeVars, devices, ret>>
            /\ uart_out' = <<>> /\ calls' = <<>>
            /\ proc_pc' = "write"
    /\ last_op' = Op("enter")
    /\ TaskKeepsReceiver
    /\ UNCHANGED <<tick, histVars, fnVars, wireVars, powerVars>>

\* ret = BLE_GATT_WriteCharacteristic(dev->conn_handle, target_char_handle,
\*                                   data_tx_buffer, data_tx_len);
Flush_Write ==
    /\ proc_pc = "write"
    /\ \E oks \in OkOne :
         LET s == Call(Sys(oks), "BLE_GATT_WriteCharacteristic",
                       <<Device(devices, target_dev_idx).conn_handle,
                         target_char_handle, data_tx_buffer>>)
         IN  /\ Commit(s)
             /\ gatt_log' = gatt_log \o GattBytes(s.calls)
             /\ write_failed' = (write_failed \/ WriteFailed(s.calls))
    /\ proc_pc' = "written"
    /\ last_op' = Op("write")
    /\ TaskKeepsReceiver
    /\ UNCHANGED <<tick, idle, rx_log, abandoned, fnVars, wireVars, powerVars>>

\* data_tx_len = 0; on either outcome of the write
Flush_Done ==
    /\ proc_pc = "written"
    /\ data_tx_len' = 0
    /\ data_tx_buffer' = <<>>
    /\ proc_pc' = "switch"
    /\ last_op' = Op("written")
    /\ uart_out' = <<>> /\ calls' = <<>>
    /\ TaskKeepsReceiver
    /\ UNCHANGED <<current_mode, target_dev_idx, target_char_handle,
                   escape_count, last_char_time, escape_start_time,
                   escape_detected, devices, ret, tick, histVars, fnVars,
                   wireVars, powerVars>>

\* Module_Mode_EnterCommand from "Switch to command mode" to its end
EnterCommand_Switch ==
    /\ proc_pc = "switch"
    /\ LET s == Sys(<<>>)
           s2 == [s EXCEPT !.current_mode = MODE_COMMAND,
                           !.target_dev_idx = NO_DEVICE,
                           !.target_char_handle = 0,
                           !.escape_count = 0,
                           !.escape_detected = 0]
       IN  Commit([AT_Response_Send(s2, "+CMDMODE", <<>>) EXCEPT !.ret = 0])
    /\ proc_pc' = "idle"
    /\ last_op' = Op("switch")
    /\ TaskKeepsReceiver
    /\ UNCHANGED <<tick, histVars, fnVars, wireVars, powerVars>>

\* AT+DATAMODE=0,5 dispatched by the idle task in Command mode
EnterDataLine ==
    /\ proc_pc = "idle"
    /\ current_mode = MODE_COMMAND
    /\ ModeLine(LINE_DATAMODE_0)

PreemptNext ==
    \/ LinkChangedInCommand
    \/ EnterDataLine
    \/ \E byte \in DataBytes : DataByte(byte)
    \/ EnterCommand_Begin
    \/ Flush_Write
    \/ Flush_Done
    \/ EnterCommand_Switch

\* the tunnel with the interrupt preempting the task's way out of Data mode
SpecPreempt == DataInit /\ [][PreemptNext]_vars

\* C38: a byte handled by Module_Mode_ProcessDataByte while the task is
\* inside Module_Mode_FlushTxBuffer or Module_Mode_EnterCommand is neither
\* lost nor sent twice: the bytes handed to GATT writes followed by the bytes
\* in the transmit buffer are the bytes the session received (no guard
\* silence occurs, so every byte is payload), and the transmit length is the
\* number of bytes held.  Stated of Data mode, and not of the instant
\* between the task's GATT write and its reset of the length, when the bytes
\* written are still in the buffer.
C38_ByteNeitherLostNorRepeated ==
    /\ (current_mode = MODE_DATA /\ proc_pc # "written")
         => Payload = Received
    /\ Len(data_tx_buffer) = data_tx_len

\* the interrupt has handled a byte between the task's GATT write and its
\* reset of the transmit length
C38_Witness ==
    /\ last_op.op = "byte"
    /\ proc_pc = "written"
    /\ gatt_log # <<>>
    /\ data_tx_len = Len(gatt_log) + 1

(***************************************************************************)
(* The address text from listing to connecting: AT+LIST on a table with    *)
(* one device, then AT+CONNECT= with the address text of its +DEV line.    *)
(***************************************************************************)
\* the values the bytes of an address take
MacByteValues == {0, 10, 175, 255}

MacAddresses == [1..6 -> MacByteValues]

MacInit ==
    /\ RxInit /\ ModeInit /\ ObsInit /\ HistInit /\ WireInit /\ PowerInit
    /\ tick = 0
    /\ fn_in \in MacAddresses
    /\ devices = <<[DeviceRecord(0) EXCEPT !.mac_addr = fn_in]>>
    /\ fn_out = <<>>

\* the address text of the first +DEV line of AT+LIST
ListedMAC(s) ==
    LET out == AT_LIST_Handler(s).uart
        k == CHOOSE i \in DOMAIN out :
                 /\ out[i].tag = "+DEV"
                 /\ \A j \in 1..(i - 1) : out[j].tag # "+DEV"
    IN  out[k].args[2]

\* AT+LIST, then AT+CONNECT=<the listed text>; fn_out keeps the text, what
\* AT+INFO=0 prints and what ParseMACString makes of the text
ListThenConnect ==
    /\ last_op.op = "init"
    /\ \E oks \in OkOne :
         LET text == ListedMAC(Sys(<<>>))
             info == AT_INFO_Handler(Sys(<<>>), 0).uart[1].args[1]
         IN  /\ Commit(AT_Command_Process(Sys(oks), STR_AT_CONNECT \o text))
             /\ fn_out' = [text |-> text, info |-> info,
                           parsed |-> ParseMACString(text)]
    /\ last_op' = Op("mac")
    /\ UNCHANGED <<rxVars, tick, histVars, fn_in, wireVars, powerVars>>

MacNext == ListThenConnect

SpecMac == MacInit /\ [][MacNext]_vars

\* C39: the MAC text round-trips between listing and connecting.  For every
\* device address, the text AT+LIST prints in +DEV (and AT+INFO in +INFO),
\* parsed by ParseMACString, gives the device's stored mac_addr, and
\* AT+CONNECT= with that text finds the device: a connection to that address
\* is requested and +ERROR:NOT_FOUND is not answered.
C39_ListedMACConnects ==
    last_op.op = "mac"
        => /\ fn_out.info = fn_out.text
           /\ fn_out.parsed.ret = 0
           /\ fn_out.parsed.mac = devices[1].mac_addr
           /\ LinesTagged(uart_out, "+ERROR:NOT_FOUND") = 0
           /\ \E i \in DOMAIN calls :
                  /\ calls[i].fn = "BLE_Connection_CreateConnection"
                  /\ calls[i].args = <<devices[1].mac_addr>>

\* the listed text of the address 00:0A:AF:FF:0A:AF has been used to connect
C39_Witness ==
    /\ last_op.op = "mac"
    /\ fn_in = <<175, 10, 255, 175, 10, 0>>
    /\ fn_out.text = <<48, 48, 58, 48, 65, 58, 65, 70, 58, 70, 70, 58,
                       48, 65, 58, 65, 70>>
    /\ uart_out # <<>>

(***************************************************************************)
(* The power manager's specification: Module_Power_Init and                *)
(* Module_Power_EnterSleep with every mode of Power_Mode_t, one value      *)
(* outside it and every set of wake sources.  The call that stops the      *)
(* processor returns at the wake-up, so a sleep is two steps: down to the  *)
(* low-power entry, and from the wake-up to the return.  (The source       *)
(* carries on after HAL_PWR_EnterSTANDBYMode as after the other entries,   *)
(* and so does the model.)                                                 *)
(***************************************************************************)
\* the modes given to Module_Power_EnterSleep
PowerModes == POWER_MODE_RUN..(POWER_MODE_STANDBY + 1)

\* the wake masks given to it: every subset of the four sources
WakeMasks ==
    0..(WAKE_SOURCE_UART + WAKE_SOURCE_GPIO + WAKE_SOURCE_TIMER
          + WAKE_SOURCE_BLE)

\* the calls that stop the processor
LowPowerEntries == {"UTIL_LPM_EnterLowPower", "HAL_PWR_EnterSTANDBYMode"}

PowerFrame ==
    UNCHANGED <<rxVars, modeVars, tick, devices, uart_out, histVars, fnVars,
                wireVars>>

PowerInitCall ==
    /\ is_sleeping = 0
    /\ LET p == Module_Power_Init(PowerState)
       IN  PowerCommit(p) /\ calls' = p.calls /\ ret' = p.ret
    /\ last_op' = Op("power_init")
    /\ PowerFrame

\* Module_Power_EnterSleep(mode, wake_mask, 0) down to the low-power entry,
\* or to its return when it does not get there
EnterSleep_Enter(mode, wake_mask) ==
    /\ is_sleeping = 0
    /\ LET p == IF mode = POWER_MODE_RUN
                THEN Module_Power_EnterSleep(PowerState, mode, wake_mask, 0)
                ELSE Module_Power_EnterSleep_Enter(PowerState, mode,
                                                   wake_mask)
       IN  /\ PowerCommit(p) /\ calls' = p.calls /\ ret' = p.ret
           /\ last_op' = [Op("sleep") EXCEPT !.idx = mode,
                                            !.handle = wake_mask,
                                            !.pending = (p.is_sleeping = 1)]
    /\ PowerFrame

\* the wake-up: the low-power entry returns and Module_Power_EnterSleep runs
\* to its end
EnterSleep_Wake ==
    /\ is_sleeping = 1
    /\ LET p == Module_Power_EnterSleep_Wake(
                    [PowerState EXCEPT !.calls = calls])
       IN  PowerCommit(p) /\ calls' = p.calls /\ ret' = p.ret
    /\ last_op' = [last_op EXCEPT !.op = "wake", !.pending = FALSE]
    /\ PowerFrame

PowerNext ==
    \/ PowerInitCall
    \/ \E mode \in PowerModes, wake_mask \in WakeMasks :
           EnterSleep_Enter(mode, wake_mask)
    \/ EnterSleep_Wake

SpecPower == Init /\ [][PowerNext]_vars

\* the position in calls of the call that stopped the processor, 0 when the
\* step made none
LowPowerEntryAt ==
    IF \E k \in 1..Len(calls) : calls[k].fn \in LowPowerEntries
    THEN CHOOSE k \in 1..Len(calls) : calls[k].fn \in LowPowerEntries
    ELSE 0

\* C40: when Module_Power_EnterSleep is asked for POWER_MODE_STOP2 or a
\* deeper mode, BLE_Connection_StopScan is called before the low-power mode
\* is entered; and when it has returned from a sleep, the power mode is
\* POWER_MODE_RUN and the sleeping flag is clear.
C40_DeepSleepStopsScan ==
    /\ ( /\ last_op.op \in {"sleep", "wake"}
         /\ last_op.idx >= POWER_MODE_STOP2
         /\ LowPowerEntryAt # 0 )
           => \E j \in 1..(LowPowerEntryAt - 1) :
                  calls[j].fn = "BLE_Connection_StopScan"
    /\ last_op.op = "wake"
           => /\ power_mode = POWER_MODE_RUN
              /\ is_sleeping = 0

\* the case of C40: POWER_MODE_STOP2 was asked for and the processor has
\* been stopped and has woken up, the function has returned
C40_Witness ==
    /\ last_op.op = "wake"
    /\ last_op.idx = POWER_MODE_STOP2
    /\ LowPowerEntryAt # 0
    /\ ret = 0
=============================================================================
